---- MODULE Spec2Model ----
(***************************************************************************)
(* Model of the BinanceFutures client (src/futures/binance_api.py).        *)
(*                                                                         *)
(* The exchange is the environment: its account book (positions, open      *)
(* orders) is state the client reads and writes only through API calls,    *)
(* and every API call is answered "ok", with a BinanceAPIException ("api") *)
(* or, for the calls where it matters, with a transport error ("net").     *)
(*                                                                         *)
(* A client method is a function from the world it starts in to the set of *)
(* outcomes it can end in, one outcome per way the exchange can answer the *)
(* calls the method makes.  An outcome is                                  *)
(*     [w |-> world at the end, exc |-> "none" or the kind of exception    *)
(*      that escaped, msg |-> its message, res |-> the result envelope].   *)
(* Exception kinds: "api" BinanceAPIException, "exc" a plain Exception     *)
(* raised by the client, "net" a transport error, "value" a ValueError,    *)
(* "type" a TypeError, "key" a KeyError.                                   *)
(***************************************************************************)
EXTENDS Integers, Sequences, FiniteSets, TLC

VARIABLES
    positionAmt,        \* exchange: symbol -> signed position amount
    listsZero,          \* exchange: position_information lists flat symbols with amount 0
    positionLimit,      \* exchange: the largest |position amount| it lets an entry reach
    openOrders,         \* exchange: the open orders (normal and algo)
    isolated_symbols,   \* client: self._isolated_symbols
    traded,             \* caller: the symbols it passes to the client in this run
    marginCalls,        \* history: symbol -> futures_change_margin_type calls issued
    marginAccepted,     \* history: symbol -> such calls answered ok / "No need to change"
    last,               \* the call that has just returned (or raised), NoCall when idle
    previous,           \* the call the caller made before it, when it went straight on
    limit_sltp_rec,     \* trade manager: the record file at limit_sltp_rec_path
    placing,            \* client: thread -> the placement it runs and its position in it
    sizing,             \* a price or quantity computation: its inputs and its output
    market,             \* exchange: the kline store of the symbol whose history is fetched
    fetch,              \* the get_historical_data call in progress
    batch               \* the fetch_data_symbols call in progress

tradeVars == <<positionAmt, listsZero, openOrders, isolated_symbols, traded,
               marginCalls, marginAccepted, last, previous, limit_sltp_rec, placing>>

klineVars == <<market, fetch>>

numVars == <<sizing, batch>>

vars == <<tradeVars, klineVars, numVars, positionLimit>>

---------------------------------------------------------------------------
(* Bounds of the model *)

MaxAmt == 1            \* |amount| of a position the account starts with, and of an entry
MaxPosition == MaxAmt + 1   \* the position limit of an account that can add to a position
MaxOpenOrders == 3     \* open orders the exchange allows on the account
MaxMarginCalls == 2    \* margin-type calls per symbol observed in one run

Symbols == {"AUSDT", "BUSDT"}

CLOSING_ORDER_TYPES ==
    {"STOP", "STOP_MARKET", "TAKE_PROFIT", "TAKE_PROFIT_MARKET", "TRAILING_STOP_MARKET"}

\* An open order as the exchange reports it.  A normal order carries the
\* fields 'type' and 'orderId', an algo (conditional) order the fields
\* 'orderType' and 'algoId'.  The exchange keeps at most one open order of a
\* shape per symbol, so the shape identifies the order.
OrderShapes ==
    { [kind |-> "normal", type |-> "LIMIT"],
      [kind |-> "normal", type |-> "TRAILING_STOP_MARKET"],
      [kind |-> "algo",   type |-> "STOP_MARKET"],
      [kind |-> "algo",   type |-> "TAKE_PROFIT_MARKET"] }

Orders == { [symbol |-> s, kind |-> sh.kind, type |-> sh.type] : s \in Symbols, sh \in OrderShapes }

\* dict.get("type") / dict.get("orderType") of an open order
get_type(order) == IF order.kind = "normal" THEN order.type ELSE "None"
get_orderType(order) == IF order.kind = "algo" THEN order.type ELSE "None"

\* The order in which the exchange lists open orders.
OrderRank(o) ==
    (IF o.symbol = "AUSDT" THEN 0 ELSE 10)
    + (IF o.type = "LIMIT" THEN 0
       ELSE IF o.type = "TRAILING_STOP_MARKET" THEN 1
       ELSE IF o.type = "STOP_MARKET" THEN 2 ELSE 3)

RECURSIVE ListOf(_)
ListOf(S) ==
    IF S = {} THEN <<>>
    ELSE LET o == CHOOSE x \in S : \A y \in S : OrderRank(x) <= OrderRank(y)
         IN  <<o>> \o ListOf(S \ {o})

---------------------------------------------------------------------------
(* Worlds, calls, outcomes *)

\* One API call the client issued, with the exchange's answer: resp, and in
\* ret the amount a position read returned for the symbol asked about or the
\* quantity a market order filled.
Call(c, symbol, type, side, key, qty, resp, ret) ==
    [c |-> c, symbol |-> symbol, type |-> type, side |-> side, key |-> key,
     qty |-> qty, resp |-> resp, ret |-> ret]

Log(w, call) == [w EXCEPT !.calls = Append(@, call)]

\* The result envelope {"success", "action", "details", "orderId", "error_message"};
\* "unset" is a key the method did not write.
Result0 ==
    [success |-> FALSE, error |-> <<>>, orderId |-> <<>>,
     position_found |-> "unset", orders_cancelled |-> "unset",
     stop_loss_set |-> "unset", take_profit_set |-> "unset",
     cleaned_symbols |-> {}, cleaned_count |-> -1, cancelled_count |-> -1]

Returned(w, res) == [w |-> w, exc |-> "none", msg |-> <<>>, res |-> res]
Raised(w, exc, msg) == [w |-> w, exc |-> exc, msg |-> msg, res |-> Result0]

\* str(e) of the BinanceAPIException the exchange answered call c with
ApiError(c, type) == <<"api", c, type>>

Bool(b) == IF b THEN "true" ELSE "false"

Abs(n) == IF n < 0 THEN -n ELSE n

---------------------------------------------------------------------------
(* The exchange *)

\* Answers to a read call and to a state-changing call; a protective-order
\* submit can also end in a transport error.
ReadResp == {"ok", "api"}
WriteResp == {"ok", "api"}
AttachResp == {"ok", "api", "net"}

\* What futures_position_information() lists for one symbol: one entry in
\* one-way mode, none when the symbol is flat and the exchange lists only
\* non-flat symbols.
PositionList(w, symbol) ==
    IF w.amt[symbol] # 0 \/ w.listsZero THEN <<w.amt[symbol]>> ELSE <<>>

\* What a reduce-only market order of qty can fill by the time the position is
\* read again: anything from nothing to all of it.
Fills(qty) == 0 .. qty

Sign(side) == IF side = "BUY" THEN 1 ELSE -1

---------------------------------------------------------------------------
(* Read methods *)

\* get_positions(symbol): [w, exc, val]; a BinanceAPIException is re-raised
\* as a plain Exception.
get_positions(w, symbol) ==
    { IF r = "ok"
      THEN [w |-> Log(w, Call("position_information", symbol, "", "", "", 0, r,
                                  w.amt[symbol])),
            exc |-> "none", val |-> PositionList(w, symbol)]
      ELSE [w |-> Log(w, Call("position_information", symbol, "", "", "", 0, r, 0)),
            exc |-> "exc", val |-> <<>>]
      : r \in ReadResp }

MatchSymbol(o, symbol) == symbol = "None" \/ o.symbol = symbol

\* get_open_orders(symbol, type): normal orders, then algo orders, filtered
\* by type when one is given.
get_open_orders(w, symbol, type) ==
    UNION {
      LET w1 == Log(w, Call("get_open_orders", symbol, "", "", "", 0, r1, 0)) IN
      IF r1 # "ok" THEN {[w |-> w1, exc |-> "exc", val |-> <<>>]}
      ELSE
        { LET w2 == Log(w1, Call("get_open_algo_orders", symbol, "", "", "", 0, r2, 0))
              normal_orders == ListOf({o \in w.orders : o.kind = "normal" /\ MatchSymbol(o, symbol)})
              algo_orders == ListOf({o \in w.orders : o.kind = "algo" /\ MatchSymbol(o, symbol)})
              orders == normal_orders \o algo_orders
          IN  IF r2 # "ok" THEN [w |-> w2, exc |-> "exc", val |-> <<>>]
              ELSE [w |-> w2, exc |-> "none",
                    val |-> IF type = "None" THEN orders
                            ELSE SelectSeq(orders,
                                   LAMBDA o : (IF get_type(o) # "None" THEN get_type(o)
                                               ELSE get_orderType(o)) = type)]
          : r2 \in ReadResp }
      : r1 \in ReadResp }

\* Mutant: the pair of a symbol the client has set up is kept and reused
\* without a request.
_get_symbol_precision_cached(w, symbol) ==
    IF symbol \in w.iso
    THEN {[w |-> w, exc |-> "none", val |-> <<0, 0>>]}
    ELSE { [w |-> Log(w, Call("exchange_info", "ALL", "", "", "", 0, r, 0)),
            exc |-> IF r = "ok" THEN "none" ELSE "api",
            val |-> <<0, 0>>]
           : r \in ReadResp }

\* _get_symbol_precision(symbol): one futures_exchange_info() request per
\* call; amounts of the model are whole lots, precision (0, 0).
_get_symbol_precision(w, symbol) ==
    { [w |-> Log(w, Call("exchange_info", "ALL", "", "", "", 0, r, 0)),
       exc |-> IF r = "ok" THEN "none" ELSE "api",
       val |-> <<0, 0>>]
      : r \in ReadResp }

---------------------------------------------------------------------------
(* _cancel_related_orders *)

\* Mutant: conditional (algo) orders are passed over.
cancel_key_normal_only(order) ==
    IF get_type(order) \in CLOSING_ORDER_TYPES THEN "orderId" ELSE "skip"

\* Which id the order is cancelled by: "orderId" when its 'type' is a closing
\* type, "algoId" when its 'orderType' is, "skip" otherwise.
cancel_key(order) ==
    IF get_type(order) \in CLOSING_ORDER_TYPES THEN "orderId"
    ELSE IF get_orderType(order) \in CLOSING_ORDER_TYPES THEN "algoId"
    ELSE "skip"

\* The loop over the open orders of the symbol; [w, exc].
RECURSIVE cancel_each(_, _, _)
cancel_each(w, symbol, orders) ==
    IF orders = <<>> THEN {[w |-> w, exc |-> "none"]}
    ELSE LET order == Head(orders) IN
         IF cancel_key(order) = "skip" THEN cancel_each(w, symbol, Tail(orders))
         ELSE UNION {
                LET w1 == Log(w, Call("cancel_order", symbol, order.type, "",
                                      cancel_key(order), 0, r, 0)) IN
                IF r = "ok"
                THEN cancel_each([w1 EXCEPT !.orders = @ \ {order}], symbol, Tail(orders))
                ELSE {[w |-> w1, exc |-> "api"]}
                : r \in WriteResp }

\* _cancel_related_orders(symbol): [w, exc]; the BinanceAPIException of a
\* failed cancel is re-raised, the Exception of a failed read passes through.
_cancel_related_orders(w, symbol) ==
    UNION { IF oo.exc # "none" THEN {[w |-> oo.w, exc |-> oo.exc]}
            ELSE cancel_each(oo.w, symbol, oo.val)
            : oo \in get_open_orders(w, symbol, "None") }

---------------------------------------------------------------------------
(* close_position *)

\* `not position or float(position[0]["positionAmt"]) == 0`
no_position(position) == position = <<>> \/ position[1] = 0

\* Mutant: the filter lacks the SHORT/SELL branch.
side_mismatch_long_only(position_type, current_side) ==
    position_type \in {"LONG", "BUY"} /\ current_side # "BUY"

\* Mutant: a call without a side is taken as a call for the long side.
side_mismatch_default_long(position_type, current_side) ==
    \/ position_type \in {"LONG", "BUY", "None"} /\ current_side # "BUY"
    \/ position_type \in {"SHORT", "SELL"} /\ current_side # "SELL"

\* The side filter: the requested side names a side and the live position is
\* on the other one.
side_mismatch(position_type, current_side) ==
    \/ position_type \in {"LONG", "BUY"} /\ current_side # "BUY"
    \/ position_type \in {"SHORT", "SELL"} /\ current_side # "SELL"

\* Mutant: the orders are cancelled whatever the re-read shows.
confirmed_flat_unchecked(new_pos) == TRUE

\* `not new_pos or float(new_pos[0]["positionAmt"]) == 0` of the re-read
confirmed_flat(new_pos) == new_pos = <<>> \/ new_pos[1] = 0

\* Mutant: the open orders are left alone after the re-read.
close_position_after_keeping_orders(w, symbol, result) ==
    UNION {
      IF np.exc # "none" THEN {Raised(np.w, np.exc, <<"get_positions">>)}
      ELSE {Returned(np.w, [result EXCEPT !.orders_cancelled = "false",
                                          !.success = TRUE])}
      : np \in get_positions(w, symbol) }

\* The second try block: re-read the position and cancel the protective
\* orders if it is flat.
close_position_after(w, symbol, result) ==
    UNION {
      IF np.exc # "none" THEN {Raised(np.w, np.exc, <<"get_positions">>)}
      ELSE IF confirmed_flat(np.val)
      THEN { IF c.exc = "none"
             THEN Returned(c.w, [result EXCEPT !.orders_cancelled = "true",
                                               !.success = TRUE])
             ELSE IF c.exc = "api"
             THEN Returned(c.w, [result EXCEPT !.error = ApiError("cancel_order", "")])
             ELSE Raised(c.w, c.exc, <<"get_open_orders">>)
             : c \in _cancel_related_orders(np.w, symbol) }
      ELSE {Returned(np.w, [result EXCEPT !.orders_cancelled = "false",
                                          !.success = TRUE])}
      : np \in get_positions(w, symbol) }

\* Mutant: the close order is for one lot.
close_position_order_one_lot(w, symbol, amt, result) ==
    LET qty == 1
        side == IF amt > 0 THEN "SELL" ELSE "BUY"
    IN UNION {
         IF r # "ok"
         THEN {Returned(Log(w, Call("create_order", symbol, "MARKET", side, "reduceOnly",
                                    qty, r, 0)),
                        [result EXCEPT !.error = ApiError("create_order", "MARKET")])}
         ELSE UNION {
                close_position_after(
                    [Log(w, Call("create_order", symbol, "MARKET", side, "reduceOnly",
                                 qty, r, f))
                       EXCEPT !.amt[symbol] = @ + Sign(side) * f],
                    symbol,
                    [result EXCEPT !.orderId = <<"MARKET", side, "reduceOnly">>])
                : f \in Fills(qty) }
         : r \in WriteResp }

\* The market order that closes amt: reduce-only, on the opposite side.
close_position_order(w, symbol, amt, result) ==
    LET qty == Abs(amt)
        side == IF amt > 0 THEN "SELL" ELSE "BUY"
    IN UNION {
         IF r # "ok"
         THEN {Returned(Log(w, Call("create_order", symbol, "MARKET", side, "reduceOnly",
                                    qty, r, 0)),
                        [result EXCEPT !.error = ApiError("create_order", "MARKET")])}
         ELSE UNION {
                close_position_after(
                    [Log(w, Call("create_order", symbol, "MARKET", side, "reduceOnly",
                                 qty, r, f))
                       EXCEPT !.amt[symbol] = @ + Sign(side) * f],
                    symbol,
                    [result EXCEPT !.orderId = <<"MARKET", side, "reduceOnly">>])
                : f \in Fills(qty) }
         : r \in WriteResp }

close_position(w, symbol, position_type) ==
    UNION {
      IF p.exc # "none" THEN {Raised(p.w, p.exc, <<"get_positions">>)}
      ELSE IF no_position(p.val)
      THEN {Returned(p.w, [Result0 EXCEPT !.success = TRUE, !.position_found = "false"])}
      ELSE LET amt == p.val[1]
               current_side == IF amt > 0 THEN "BUY" ELSE "SELL"
           IN IF side_mismatch(position_type, current_side)
              THEN {Returned(p.w, [Result0 EXCEPT !.success = TRUE,
                                                  !.position_found = "false"])}
              ELSE UNION {
                     IF pr.exc # "none"
                     THEN {Returned(pr.w, [Result0 EXCEPT
                                             !.error = ApiError("exchange_info", "")])}
                     ELSE close_position_order(pr.w, symbol, amt, Result0)
                     : pr \in _get_symbol_precision(p.w, symbol) }
      : p \in get_positions(w, symbol) }

---------------------------------------------------------------------------
(* _set_isolated_margin *)

\* Answers to futures_change_margin_type: done, "No need to change margin
\* type.", or another error.
MarginResp == {"ok", "noneed", "api"}

\* Mutant: the cache is never consulted.
needs_margin_call_always(w, symbol) == TRUE

\* `if symbol not in self._isolated_symbols`
needs_margin_call(w, symbol) == symbol \notin w.iso

\* Mutant: "No need to change margin type." is swallowed without marking.
marked_only_when_changed(iso, symbol, r) == IF r = "ok" THEN iso \cup {symbol} ELSE iso

\* self._isolated_symbols.add(symbol), after an accepted call and after
\* "No need to change margin type." alike.
marked(iso, symbol, r) == iso \cup {symbol}

\* Mutant: every error of the call is swallowed like "No need to change
\* margin type.".
_set_isolated_margin_swallowing(w, symbol) ==
    IF needs_margin_call(w, symbol)
    THEN { LET w1 == Log(w, Call("change_margin_type", symbol, "ISOLATED", "", "", 0, r, 0)) IN
           [w |-> Log([w1 EXCEPT !.iso = marked(@, symbol, r)],
                      Call("sleep", symbol, "", "", "", 7, "ok", 0)),
            exc |-> "none"]
           : r \in MarginResp }
    ELSE {[w |-> w, exc |-> "none"]}

\* Mutant: the method returns right after marking the symbol.
_set_isolated_margin_no_sleep(w, symbol) ==
    IF needs_margin_call(w, symbol)
    THEN { LET w1 == Log(w, Call("change_margin_type", symbol, "ISOLATED", "", "", 0, r, 0)) IN
           IF r = "api"
           THEN [w |-> w1, exc |-> "api"]
           ELSE [w |-> [w1 EXCEPT !.iso = marked(@, symbol, r)], exc |-> "none"]
           : r \in MarginResp }
    ELSE {[w |-> w, exc |-> "none"]}

\* _set_isolated_margin(symbol): [w, exc]; any other error is re-raised, and
\* the 7 s sleep follows every call that did not raise.
_set_isolated_margin(w, symbol) ==
    IF needs_margin_call(w, symbol)
    THEN { LET w1 == Log(w, Call("change_margin_type", symbol, "ISOLATED", "", "", 0, r, 0)) IN
           IF r = "api"
           THEN [w |-> w1, exc |-> "api"]
           ELSE [w |-> Log([w1 EXCEPT !.iso = marked(@, symbol, r)],
                           Call("sleep", symbol, "", "", "", 7, "ok", 0)),
                 exc |-> "none"]
           : r \in MarginResp }
    ELSE {[w |-> w, exc |-> "none"]}

---------------------------------------------------------------------------
(* set_stop_loss_take_profit *)

\* The exchange accepts a new open order of this shape.
CanOpen(w, order) == order \notin w.orders /\ Cardinality(w.orders) < MaxOpenOrders

OpenResp(w, order, resps) == IF CanOpen(w, order) THEN resps ELSE resps \ {"ok"}

\* "BUY" if side.upper() == "BUY" or side.upper() == "LONG" else "SELL"
entry_side(side) == IF side \in {"BUY", "LONG"} THEN "BUY" ELSE "SELL"

\* The side of a protective order for a position entered on `side`.
protective_side(side) == IF side \in {"BUY", "LONG"} THEN "SELL" ELSE "BUY"

\* Mutant: the except branch records the error and does not close.
sltp_rollback_no_close(w, symbol, side, result, error) ==
    {Returned(w, [result EXCEPT !.error = error])}

\* The except branch: record the error, close the position, return result.
\* The result of close_position is dropped; an exception it raises escapes.
sltp_rollback(w, symbol, side, result, error) ==
    { IF c.exc = "none"
      THEN Returned(c.w, [result EXCEPT !.error = error])
      ELSE Raised(c.w, c.exc, c.msg)
      : c \in close_position(w, symbol, entry_side(side)) }

\* One leg: futures_create_algo_order(type, closePosition=True); [w, exc].
attach_leg(w, symbol, side, type) ==
    LET order == [symbol |-> symbol, kind |-> "algo", type |-> type] IN
    { LET w1 == Log(w, Call("create_algo_order", symbol, type, protective_side(side),
                            "closePosition", 0, r, 0)) IN
      [w |-> IF r = "ok" THEN [w1 EXCEPT !.orders = @ \cup {order}] ELSE w1,
       exc |-> IF r = "ok" THEN "none" ELSE r]
      : r \in OpenResp(w, order, AttachResp) }

\* The take-profit leg and the return.
sltp_take_profit(w, symbol, side, take_profit_price, result) ==
    IF take_profit_price
    THEN UNION {
           IF tp.exc = "none"
           THEN {Returned(tp.w, [result EXCEPT !.take_profit_set = "true", !.success = TRUE])}
           ELSE IF tp.exc = "api"
           THEN sltp_rollback(tp.w, symbol, side, result,
                              ApiError("create_algo_order", "TAKE_PROFIT_MARKET"))
           ELSE {Raised(tp.w, tp.exc, <<"create_algo_order", "TAKE_PROFIT_MARKET">>)}
           : tp \in attach_leg(w, symbol, side, "TAKE_PROFIT_MARKET") }
    ELSE {Returned(w, [result EXCEPT !.success = TRUE])}

\* The stop-loss leg, then the take-profit leg.
sltp_stop_loss(w, symbol, side, stop_loss_price, take_profit_price, result) ==
    IF stop_loss_price
    THEN UNION {
           IF sl.exc = "none"
           THEN sltp_take_profit(sl.w, symbol, side, take_profit_price,
                                 [result EXCEPT !.stop_loss_set = "true"])
           ELSE IF sl.exc = "api"
           THEN sltp_rollback(sl.w, symbol, side, result,
                              ApiError("create_algo_order", "STOP_MARKET"))
           ELSE {Raised(sl.w, sl.exc, <<"create_algo_order", "STOP_MARKET">>)}
           : sl \in attach_leg(w, symbol, side, "STOP_MARKET") }
    ELSE sltp_take_profit(w, symbol, side, take_profit_price, result)

\* stop_loss_price / take_profit_price: TRUE when a (non-zero) price is given.
set_stop_loss_take_profit(w, symbol, side, stop_loss_price, take_profit_price) ==
    UNION {
      IF pr.exc # "none"
      THEN sltp_rollback(pr.w, symbol, side, Result0, ApiError("exchange_info", ""))
      ELSE sltp_stop_loss(pr.w, symbol, side, stop_loss_price, take_profit_price, Result0)
      : pr \in _get_symbol_precision(w, symbol) }

---------------------------------------------------------------------------
(* place_market_order, place_limit_order *)

\* get_price(symbol): [w, exc]
get_price(w, symbol) ==
    { [w |-> Log(w, Call("symbol_ticker", symbol, "", "", "", 0, r, 0)),
       exc |-> IF r = "ok" THEN "none" ELSE "exc"]
      : r \in ReadResp }

\* Mutant: a rejected leverage call is ignored.
change_leverage_ignoring_errors(w, symbol) ==
    { [w |-> Log(w, Call("change_leverage", symbol, "", "", "", 0, r, 0)),
       exc |-> "none"]
      : r \in WriteResp }

\* futures_change_leverage: [w, exc]
change_leverage(w, symbol) ==
    { [w |-> Log(w, Call("change_leverage", symbol, "", "", "", 0, r, 0)),
       exc |-> IF r = "ok" THEN "none" ELSE "api"]
      : r \in WriteResp }

\* Mutant: the result of set_stop_loss_take_profit is not looked at.
market_order_finish_unchecked(sltp, result) ==
    IF sltp.exc # "none" THEN Raised(sltp.w, sltp.exc, sltp.msg)
    ELSE Returned(sltp.w, [result EXCEPT !.success = TRUE])

\* What place_market_order does with the result of set_stop_loss_take_profit:
\* a failed result is turned into a plain Exception, which the method's own
\* `except BinanceAPIException` does not catch.
market_order_finish(sltp, result) ==
    IF sltp.exc # "none" THEN Raised(sltp.w, sltp.exc, sltp.msg)
    ELSE IF ~sltp.res.success
    THEN Raised(sltp.w, "exc", <<"sltp_failed">> \o sltp.res.error)
    ELSE Returned(sltp.w, [result EXCEPT !.success = TRUE])

\* The entry order and everything after it.
market_order_entry(w, symbol, side, qty, stop_loss_price, take_profit_price) ==
    LET fits == Abs(w.amt[symbol] + Sign(side) * qty) <= w.limit IN
    UNION {
      LET w1 == Log(w, Call("create_order", symbol, "MARKET", side, "", qty, r,
                            IF r = "ok" THEN qty ELSE 0)) IN
      IF r # "ok"
      THEN {Returned(w1, [Result0 EXCEPT !.error = ApiError("create_order", "MARKET")])}
      ELSE { market_order_finish(sltp, [Result0 EXCEPT !.orderId = <<"MARKET", side, "">>])
             : sltp \in set_stop_loss_take_profit(
                          [w1 EXCEPT !.amt[symbol] = @ + Sign(side) * qty],
                          symbol, side, stop_loss_price, take_profit_price) }
      : r \in IF fits THEN WriteResp ELSE WriteResp \ {"ok"} }

\* Precision, leverage and margin mode: the steps both placements share.
\* [w, exc, call]: call names the step that raised.
order_setup(w, symbol) ==
    UNION {
      IF pr.exc # "none" THEN {[w |-> pr.w, exc |-> pr.exc, call |-> "exchange_info"]}
      ELSE UNION {
             IF lv.exc # "none" THEN {[w |-> lv.w, exc |-> lv.exc, call |-> "change_leverage"]}
             ELSE { [w |-> mg.w, exc |-> mg.exc, call |-> "change_margin_type"]
                    : mg \in _set_isolated_margin(lv.w, symbol) }
             : lv \in change_leverage(pr.w, symbol) }
      : pr \in _get_symbol_precision(w, symbol) }

place_market_order(w, symbol, position_type, qty, stop_loss_price, take_profit_price) ==
    LET side == entry_side(position_type) IN
    UNION {
      IF gp.exc # "none" THEN {Raised(gp.w, gp.exc, <<"get_price">>)}
      ELSE UNION {
             IF su.exc # "none"
             THEN {Returned(su.w, [Result0 EXCEPT !.error = ApiError(su.call, "")])}
             ELSE market_order_entry(su.w, symbol, side, qty,
                                     stop_loss_price, take_profit_price)
             : su \in order_setup(gp.w, symbol) }
      : gp \in get_price(w, symbol) }

\* Mutant: the order is submitted immediate-or-cancel.
limit_order_call_ioc(symbol, side, qty, r) ==
    Call("create_order", symbol, "LIMIT", side, "IOC", qty, r, 0)

\* futures_create_order(symbol, side, type="LIMIT", quantity, price,
\* timeInForce="GTC") answered r.
limit_order_call(symbol, side, qty, r) ==
    Call("create_order", symbol, "LIMIT", side, "GTC", qty, r, 0)

place_limit_order(w, symbol, position_type, qty) ==
    LET side == entry_side(position_type)
        order == [symbol |-> symbol, kind |-> "normal", type |-> "LIMIT"]
    IN UNION {
         IF su.exc # "none"
         THEN {Returned(su.w, [Result0 EXCEPT !.error = ApiError(su.call, "")])}
         ELSE { LET w1 == Log(su.w, limit_order_call(symbol, side, qty, r)) IN
                IF r = "ok"
                THEN Returned([w1 EXCEPT !.orders = @ \cup {order}],
                              [Result0 EXCEPT !.orderId = <<"LIMIT", side, "GTC">>,
                                              !.success = TRUE])
                ELSE Returned(w1, [Result0 EXCEPT !.error = ApiError("create_order", "LIMIT")])
                : r \in OpenResp(su.w, order, WriteResp) }
         : su \in order_setup(w, symbol) }

---------------------------------------------------------------------------
(* cancel_order *)

\* Mutant: the loop ends after the first order.
cancel_order_first(w, symbol, orders, n) ==
    IF orders = <<>> THEN {[w |-> w, exc |-> "none", n |-> n]}
    ELSE LET order == Head(orders)
             key == IF order.kind = "algo" THEN "algoId" ELSE "orderId"
         IN  { LET w1 == Log(w, Call("cancel_order", symbol, order.type, "", key, 0, r, 0)) IN
               IF r = "ok"
               THEN [w |-> [w1 EXCEPT !.orders = @ \ {order}], exc |-> "none", n |-> n + 1]
               ELSE [w |-> w1, exc |-> "api", n |-> n]
               : r \in WriteResp }

\* The loop over the orders read: every order is cancelled by its algoId or
\* its orderId; [w, exc, n] with n the orders cancelled so far.
RECURSIVE cancel_order_each(_, _, _, _)
cancel_order_each(w, symbol, orders, n) ==
    IF orders = <<>> THEN {[w |-> w, exc |-> "none", n |-> n]}
    ELSE LET order == Head(orders)
             key == IF order.kind = "algo" THEN "algoId" ELSE "orderId"
         IN  UNION {
               LET w1 == Log(w, Call("cancel_order", symbol, order.type, "", key, 0, r, 0)) IN
               IF r = "ok"
               THEN cancel_order_each([w1 EXCEPT !.orders = @ \ {order}], symbol,
                                      Tail(orders), n + 1)
               ELSE {[w |-> w1, exc |-> "api", n |-> n]}
               : r \in WriteResp }

\* cancel_order(symbol, type): the Exception of a failed order read is not a
\* BinanceAPIException and escapes.
cancel_order(w, symbol, type) ==
    UNION {
      IF oo.exc # "none" THEN {Raised(oo.w, oo.exc, <<"get_open_orders">>)}
      ELSE { IF c.exc = "none"
             THEN Returned(c.w, [Result0 EXCEPT !.success = TRUE, !.cancelled_count = c.n])
             ELSE Returned(c.w, [Result0 EXCEPT !.error = ApiError("cancel_order", type)])
             : c \in cancel_order_each(oo.w, symbol, oo.val, 0) }
      : oo \in get_open_orders(w, symbol, type) }

---------------------------------------------------------------------------
(* clean_orphan_orders *)

\* order.get("type") or order.get("orderType")
od_type(order) == IF get_type(order) # "None" THEN get_type(order) ELSE get_orderType(order)

\* `not self.get_positions(symbol=symbol)`: the list of entries is empty.
no_position_entry(positions) == positions = <<>>

\* The loop over the snapshot of open orders; [w, exc, cleaned].
RECURSIVE clean_each(_, _, _)
clean_each(w, orders, cleaned_symbols) ==
    IF orders = <<>> THEN {[w |-> w, exc |-> "none", cleaned |-> cleaned_symbols]}
    ELSE LET order == Head(orders)
             symbol == order.symbol
         IN IF od_type(order) \notin CLOSING_ORDER_TYPES \/ symbol \in cleaned_symbols
            THEN clean_each(w, Tail(orders), cleaned_symbols)
            ELSE UNION {
                   IF p.exc # "none"
                   THEN {[w |-> p.w, exc |-> p.exc, cleaned |-> cleaned_symbols]}
                   ELSE IF no_position_entry(p.val)
                   THEN UNION {
                          IF c.exc # "none"
                          THEN {[w |-> c.w, exc |-> c.exc, cleaned |-> cleaned_symbols]}
                          ELSE clean_each(c.w, Tail(orders), cleaned_symbols \cup {symbol})
                          : c \in _cancel_related_orders(p.w, symbol) }
                   ELSE clean_each(p.w, Tail(orders), cleaned_symbols \cup {symbol})
                   : p \in get_positions(w, symbol) }

\* clean_orphan_orders(): `except Exception` turns every failure into a
\* failed result.
clean_orphan_orders(w) ==
    UNION {
      IF oo.exc # "none"
      THEN {Returned(oo.w, [Result0 EXCEPT !.error = <<oo.exc, "get_open_orders">>])}
      ELSE { IF c.exc # "none"
             THEN Returned(c.w, [Result0 EXCEPT !.error = <<c.exc, "sweep">>])
             ELSE Returned(c.w, [Result0 EXCEPT !.success = TRUE,
                                                !.cleaned_symbols = c.cleaned,
                                                !.cleaned_count = Cardinality(c.cleaned)])
             : c \in clean_each(oo.w, oo.val, {}) }
      : oo \in get_open_orders(w, "None", "None") }

---------------------------------------------------------------------------
(* TradeManager *)

\* The parameters of BinanceFutures.set_stop_loss_take_profit after self.
sltp_parameters == <<"symbol", "side", "stop_loss_price", "take_profit_price">>

\* Python's argument binding: a call with npositional positional arguments
\* and the given keyword arguments binds when there are no more positionals
\* than parameters and every keyword names a parameter no positional has
\* taken; otherwise the call raises TypeError before the method runs.
binds(parameters, npositional, keywords) ==
    /\ npositional <= Len(parameters)
    /\ \A k \in keywords :
          \E i \in (npositional + 1) .. Len(parameters) : parameters[i] = k

sltp_call_binds(npositional, keywords) == binds(sltp_parameters, npositional, keywords)

\* The last statement of adjust_stop_loss:
\* client.set_stop_loss_take_profit(symbol, side, quantity, stop_loss_price=...);
\* its result is dropped.
adjust_attach(w, symbol, side) ==
    IF ~sltp_call_binds(3, {"stop_loss_price"})
    THEN {Raised(w, "type", <<"set_stop_loss_take_profit">>)}
    ELSE { IF o.exc = "none" THEN Returned(o.w, Result0) ELSE Raised(o.w, o.exc, o.msg)
           : o \in set_stop_loss_take_profit(w, symbol, side, TRUE, FALSE) }

\* The stop-loss orders read, the cancellation when there are any; the
\* result of cancel_order is dropped.
adjust_cancel(w, symbol, side) ==
    UNION {
      IF oo.exc # "none" THEN {Raised(oo.w, oo.exc, <<"get_open_orders">>)}
      ELSE IF oo.val = <<>> THEN adjust_attach(oo.w, symbol, side)
      ELSE UNION { IF c.exc # "none" THEN {Raised(c.w, c.exc, c.msg)}
                   ELSE adjust_attach(c.w, symbol, side)
                   : c \in cancel_order(oo.w, symbol, "STOP_MARKET") }
      : oo \in get_open_orders(w, symbol, "STOP_MARKET") }

\* TradeManager.adjust_stop_loss(symbol, side, new_stop_loss_price)
adjust_stop_loss(w, symbol, side) ==
    UNION {
      IF ps.exc # "none" THEN {Raised(ps.w, ps.exc, <<"get_positions">>)}
      ELSE IF ps.val = <<>> THEN {Raised(ps.w, "value", <<"no_position">>)}
      ELSE adjust_cancel(ps.w, symbol, side)
      : ps \in get_positions(w, symbol) }

\* The record file at limit_sltp_rec_path: a JSON object symbol -> {side,
\* stop_loss_price, take_profit_price}, its keys in insertion order; the
\* file does not exist until record_limit_sltp has written it.
NoFile == [exists |-> FALSE, items |-> <<>>]

RecordOf(symbol, side, stop_loss_price, take_profit_price) ==
    [symbol |-> symbol, side |-> side, stop_loss_price |-> stop_loss_price,
     take_profit_price |-> take_profit_price]

\* limit_sltp_rec[symbol] = {...}: a key the object has keeps its place.
set_item(items, rec) ==
    IF \E i \in 1 .. Len(items) : items[i].symbol = rec.symbol
    THEN [i \in 1 .. Len(items) |->
             IF items[i].symbol = rec.symbol THEN rec ELSE items[i]]
    ELSE Append(items, rec)

\* TradeManager.record_limit_sltp(symbol, side, stop_loss_price, take_profit_price):
\* no call to the client; the file is read (an absent file is {}), updated
\* and written back.
record_limit_sltp(w, file, symbol, side, stop_loss_price, take_profit_price) ==
    { [w |-> w, exc |-> "none", msg |-> <<>>, res |-> Result0,
       file |-> [exists |-> TRUE,
                 items |-> set_item(file.items,
                              RecordOf(symbol, side, stop_loss_price, take_profit_price))]] }

\* any(order['type'] == type for order in orders): the normal orders come
\* first and carry 'type'; an algo order carries 'orderType', so that the
\* subscript raises KeyError where the exchange leaves 'type' out and gives
\* None where it sends it empty.
any_type(orders, type) ==
    IF \E i \in 1 .. Len(orders) : orders[i].kind = "normal" /\ orders[i].type = type
    THEN {"true"}
    ELSE IF \E i \in 1 .. Len(orders) : orders[i].kind = "algo"
    THEN {"keyerror", "false"}
    ELSE {"false"}

\* An outcome of a client call carried on with the record file as it is.
Leaves(o, file) == [w |-> o.w, exc |-> o.exc, msg |-> o.msg, res |-> Result0, file |-> file]

\* One of the two scans of check_limit_status with its cancellation: the
\* worlds the pass goes on in and the exceptions that end it.
check_cancel(w, symbol, orders, type, recorded) ==
    UNION {
      IF a = "keyerror" THEN {Raised(w, "key", <<"type">>)}
      ELSE IF a = "true" /\ recorded
      THEN { IF c.exc # "none" THEN Raised(c.w, c.exc, c.msg) ELSE Returned(c.w, Result0)
             : c \in cancel_order(w, symbol, type) }
      ELSE {Returned(w, Result0)}
      : a \in any_type(orders, type) }

\* client.set_stop_loss_take_profit(symbol, sltp_data['side'], quantity,
\* stop_loss_price=..., take_profit_price=...); its result is dropped.
check_attach(w, rec) ==
    IF ~sltp_call_binds(3, {"stop_loss_price", "take_profit_price"})
    THEN {Raised(w, "type", <<"set_stop_loss_take_profit">>)}
    ELSE { IF o.exc = "none" THEN Returned(o.w, Result0) ELSE Raised(o.w, o.exc, o.msg)
           : o \in set_stop_loss_take_profit(w, rec.symbol, rec.side,
                                             rec.stop_loss_price, rec.take_profit_price) }

\* The body of the loop for one record with a position: the two scans, then
\* the attachment.
check_one(w, rec) ==
    UNION {
      IF oo.exc # "none" THEN {Raised(oo.w, oo.exc, <<"get_open_orders">>)}
      ELSE UNION {
        IF c1.exc # "none" THEN {c1}
        ELSE UNION {
          IF c2.exc # "none" THEN {c2} ELSE check_attach(c2.w, rec)
          : c2 \in check_cancel(c1.w, rec.symbol, oo.val, "TAKE_PROFIT_MARKET",
                                rec.take_profit_price) }
        : c1 \in check_cancel(oo.w, rec.symbol, oo.val, "STOP_MARKET",
                              rec.stop_loss_price) }
      : oo \in get_open_orders(w, rec.symbol, "None") }

\* The loop of check_limit_status from record i on, to_del holding the
\* symbols handled so far; at its end the file is written without them.  An
\* exception leaves the loop and the file as it was.
RECURSIVE check_loop(_, _, _, _)
check_loop(w, file, i, to_del) ==
    IF i > Len(file.items)
    THEN {[w |-> w, exc |-> "none", msg |-> <<>>, res |-> Result0,
           file |-> [exists |-> TRUE,
                     items |-> SelectSeq(file.items, LAMBDA r : r.symbol \notin to_del)]]}
    ELSE LET rec == file.items[i] IN
      UNION {
        IF ps.exc # "none" THEN {Leaves(Raised(ps.w, ps.exc, <<"get_positions">>), file)}
        ELSE IF ps.val = <<>> THEN check_loop(ps.w, file, i + 1, to_del)
        ELSE UNION {
          IF o.exc # "none" THEN {Leaves(o, file)}
          ELSE check_loop(o.w, file, i + 1, to_del \cup {rec.symbol})
          : o \in check_one(ps.w, rec) }
        : ps \in get_positions(w, rec.symbol) }

\* TradeManager.check_limit_status(): nothing happens without the file.
check_limit_status(w, file) ==
    IF ~file.exists THEN {Leaves(Returned(w, Result0), file)}
    ELSE check_loop(w, file, 1, {})

---------------------------------------------------------------------------
(* Kline history: GET /fapi/v1/klines and get_historical_data              *)
(*                                                                         *)
(* The exchange keeps the bars 1 .. nbars of one symbol and interval; bar  *)
(* k opens at k * Interval and closes at (k + 1) * Interval - 1.  The last *)
(* bar is in progress.  A fetch is a process: it issues one page request   *)
(* at a time and waits for the exchange's answer.                          *)

max_limit == 1000      \* bars per page request

Interval == 2          \* length of a bar, in ms
ShortHistory == 4      \* bars of a recently listed symbol
SmallLimit == 3        \* small values of limit the caller passes: 1 .. SmallLimit
OverLimit == 2         \* values of limit up to max_limit + OverLimit
MaxRetries == 2        \* 429 answers the exchange gives during one fetch
MaxRetryAfter == 3     \* largest retry-after header value, in seconds

None == -1             \* Python's None where an int is expected

LongHistory == max_limit + OverLimit + 3

KlineSymbol == "AUSDT"
KlineInterval == "15m"

Min(a, b) == IF a <= b THEN a ELSE b

\* A kline: <<open time (index 0), close time (index 6)>>.
Bar(k) == <<k * Interval, (k + 1) * Interval - 1>>
open_time(kline) == kline[1]
close_time(kline) == kline[2]

\* The exchange's kline store; a symbol that has not traded yet has no bars.
\* gap is a bar the exchange never recorded
\* (0: none).  With overlap the exchange matches startTime against the close
\* time, so a page can start with the bar that was open at startTime.
GapChoices(n) == {g \in {0, n - 1, n - max_limit + 1, n - max_limit - 1} : g >= 0}

Markets ==
    UNION { { [nbars |-> n, gap |-> g, overlap |-> o, tradable |-> t] :
                g \in GapChoices(n), o \in BOOLEAN, t \in BOOLEAN } :
            n \in {0, ShortHistory, LongHistory} }

IdleMarket == [nbars |-> ShortHistory, gap |-> 0, overlap |-> FALSE, tradable |-> TRUE]

\* int(time.time() * 1000): the last bar has opened and not closed.
Now(m) == m.nbars * Interval

\* The first bar a page with startTime = start begins at.
FirstIndex(m, start) ==
    LET k == IF m.overlap THEN start \div Interval
             ELSE (start + Interval - 1) \div Interval
    IN  IF k < 1 THEN 1 ELSE k

\* The recorded bars from bar k0 on: how many there are, and the j-th.
CountFrom(m, k0) ==
    IF k0 > m.nbars THEN 0
    ELSE (m.nbars - k0 + 1) - (IF m.gap >= k0 /\ m.gap <= m.nbars THEN 1 ELSE 0)

NthFrom(m, k0, j) ==
    LET k == k0 + j - 1
    IN  IF m.gap >= k0 /\ m.gap <= k THEN k + 1 ELSE k

Page(m, k0, limit) ==
    [j \in 1 .. Min(limit, CountFrom(m, k0)) |-> Bar(NthFrom(m, k0, j))]

\* The first bar of the page holding the latest limit bars.
LastIndex(m, limit) ==
    LET n == Min(limit, CountFrom(m, 1))
        k == m.nbars - n + 1
    IN  IF m.gap >= k /\ m.gap <= m.nbars THEN k - 1 ELSE k

\* The payload of a 200 answer: up to limit bars in ascending order, from
\* startTime on, or the latest ones when startTime is omitted.
Klines(m, req) ==
    IF req.start = 0 THEN Page(m, LastIndex(m, req.limit), req.limit)
    ELSE Page(m, FirstIndex(m, req.start), req.limit)

\* Mutant: every symbol passes.
check_symbol_availability_any(m, symbol) == TRUE

\* exchange_info: the PERPETUAL symbols in status TRADING.
check_symbol_availability(m, symbol) ==
    symbol \in (IF m.tradable THEN {KlineSymbol} ELSE {})

\* The query string of a page request; limit and startTime are sent only
\* when truthy (start 0: omitted).
params(symbol, interval, limit, start_str) ==
    [symbol |-> symbol, interval |-> interval,
     limit |-> IF limit = None THEN 0 ELSE limit,
     start |-> start_str]

NoReq == params("None", "None", None, 0)

NoFetch ==
    [pc |-> "idle", limit0 |-> None, limit |-> None, closed |-> FALSE, since |-> 0,
     all_klines |-> <<>>, remaining |-> 0, fetch_limit |-> 0,
     asked |-> NoReq, req |-> NoReq, requests |-> <<>>, responses |-> <<>>,
     slept |-> <<>>, page |-> <<>>, answered |-> NoReq,
     exc |-> "none", msg |-> "none", klines |-> <<>>]

\* _get_historical_klines_with_rate_limit is entered: requests.get(params).
issue(f, limit, start_str) ==
    LET p == params(KlineSymbol, KlineInterval, limit, start_str)
    IN  [f EXCEPT !.pc = "waiting", !.asked = p, !.req = p,
                  !.requests = Append(@, p)]

\* The request the recursive call sends after a 429.
retry_request_without_start(req) == [req EXCEPT !.start = 0]

retry_request(req) == req

\* int(response.headers.get("retry-after", "1")) + 1
retry_after(header) == (IF header = None THEN 1 ELSE header) + 1

klines_returned(f, klines) == [f EXCEPT !.pc = "done", !.klines = klines]
klines_raised(f, exc, msg) == [f EXCEPT !.pc = "done", !.exc = exc, !.msg = msg]

drop_last(klines) == SubSeq(klines, 1, Len(klines) - 1)

\* if closed and not since and limit: limit += 1
first_extra(limit, closed, since) ==
    IF closed /\ since = 0 /\ limit # None THEN limit + 1 ELSE limit

\* if closed and limit: limit += 1   (branch without since)
second_extra(limit, closed) ==
    IF closed /\ limit # None THEN limit + 1 ELSE limit

\* ---- branch with since: pages forward from since ----

since_fetch_limit(limit) == IF limit = None THEN max_limit ELSE Min(max_limit, limit)

since_finish(f, all_klines, now) ==
    klines_returned([f EXCEPT !.all_klines = all_klines],
        IF f.closed /\ all_klines # <<>> /\ close_time(all_klines[Len(all_klines)]) > now
        THEN drop_last(all_klines) ELSE all_klines)

\* Mutant: the next page starts at the open time of the last bar received.
since_page_same_start(f, klines, now) ==
    IF klines = <<>> THEN since_finish(f, f.all_klines, now)
    ELSE LET all_klines == f.all_klines \o klines
         IN  IF f.limit # None /\ Len(all_klines) >= f.limit
             THEN since_finish(f, SubSeq(all_klines, 1, f.limit), now)
             ELSE IF Len(klines) < f.fetch_limit
             THEN since_finish(f, all_klines, now)
             ELSE issue([f EXCEPT !.all_klines = all_klines], f.fetch_limit,
                        open_time(klines[Len(klines)]))

since_page(f, klines, now) ==
    IF klines = <<>> THEN since_finish(f, f.all_klines, now)
    ELSE LET all_klines == f.all_klines \o klines
         IN  IF f.limit # None /\ Len(all_klines) >= f.limit
             THEN since_finish(f, SubSeq(all_klines, 1, f.limit), now)
             ELSE IF Len(klines) < f.fetch_limit
             THEN since_finish(f, all_klines, now)
             ELSE issue([f EXCEPT !.all_klines = all_klines], f.fetch_limit,
                        open_time(klines[Len(klines)]) + 1)

\* ---- branch without since: pages backward from the latest bar ----

has_duplicate(all_klines) ==
    Cardinality({open_time(all_klines[i]) : i \in 1 .. Len(all_klines)}) # Len(all_klines)

\* Mutant: only an empty series counts as insufficient.
insufficient_only_empty(all_klines, limit) == all_klines = <<>>

insufficient(all_klines, limit) ==
    all_klines = <<>> \/ (limit # None /\ Len(all_klines) < limit)

count_finish(f) ==
    IF insufficient(f.all_klines, f.limit)
    THEN klines_raised(f, "exc", "insufficient")
    ELSE klines_returned(f, IF f.closed THEN drop_last(f.all_klines) ELSE f.all_klines)

\* while remaining > 0: the next page request, or the end of the loop.
count_loop(f) ==
    IF f.remaining = None THEN klines_raised(f, "type", "None > 0")
    ELSE IF f.remaining > 0
    THEN LET fetch_limit == Min(max_limit, f.remaining)
             g == [f EXCEPT !.fetch_limit = fetch_limit]
         IN  IF f.all_klines # <<>>
             THEN IF Len(f.all_klines) < 2
                  THEN klines_raised(g, "index", "all_klines[1]")
                  ELSE LET time_diff == open_time(f.all_klines[2]) - open_time(f.all_klines[1])
                           since_ts == open_time(f.all_klines[1]) - time_diff * fetch_limit
                       IN  issue(g, fetch_limit, since_ts)
             ELSE issue(g, fetch_limit, 0)
    ELSE count_finish(f)

\* Mutant: remaining is left as it was.
count_page_no_decrement(f, klines) ==
    IF klines = <<>> THEN count_finish(f)
    ELSE LET all_klines == klines \o f.all_klines
             g == [f EXCEPT !.all_klines = all_klines]
         IN  IF has_duplicate(all_klines)
             THEN klines_raised(g, "exc", "duplicate")
             ELSE count_loop(g)

count_page(f, klines) ==
    IF klines = <<>> THEN count_finish(f)
    ELSE LET all_klines == klines \o f.all_klines
             g == [f EXCEPT !.all_klines = all_klines, !.remaining = @ - f.fetch_limit]
         IN  IF has_duplicate(all_klines)
             THEN klines_raised(g, "exc", "duplicate")
             ELSE count_loop(g)

\* get_historical_data up to its first page request.
get_historical_data(m, symbol, limit, closed, since) ==
    LET f == [NoFetch EXCEPT !.limit0 = limit, !.closed = closed, !.since = since,
                             !.limit = first_extra(limit, closed, since)]
    IN  IF ~check_symbol_availability(m, symbol)
        THEN klines_raised(f, "exc", "not_perpetual")
        ELSE IF since # 0
        THEN LET fetch_limit == since_fetch_limit(f.limit)
             IN  issue([f EXCEPT !.fetch_limit = fetch_limit], fetch_limit, since)
        ELSE LET limit2 == second_extra(f.limit, closed)
             IN  count_loop([f EXCEPT !.limit = limit2, !.remaining = limit2])

\* get_historical_data from the page the request returned.
page_returned(f, klines, now) ==
    IF f.since # 0 THEN since_page(f, klines, now) ELSE count_page(f, klines)

---------------------------------------------------------------------------
(* Prices and quantities *)

MaxPrecision == 8      \* largest precision (fractional digits) of a step
MaxScale == 8          \* fractional digits of the values passed in
IntDigits == 9         \* numbers of the model have fewer decimal digits than this

Max(a, b) == IF a >= b THEN a ELSE b

RECURSIVE Pow10(_)
Pow10(n) == IF n = 0 THEN 1 ELSE 10 * Pow10(n - 1)

\* Strings are sequences of characters.
DigitChars == <<"0", "1", "2", "3", "4", "5", "6", "7", "8", "9">>

Zeros(k) == [i \in 1 .. k |-> "0"]

\* str(n) of an int n >= 0
RECURSIVE IntStr(_)
IntStr(n) ==
    IF n < 10 THEN <<DigitChars[n + 1]>>
    ELSE Append(IntStr(n \div 10), DigitChars[(n % 10) + 1])

DigitValue(ch) == CHOOSE d \in 0 .. 9 : DigitChars[d + 1] = ch

\* int(s) of a string of digits; the empty string counts 0.
RECURSIVE IntOf(_)
IntOf(s) ==
    IF s = <<>> THEN 0
    ELSE 10 * IntOf(SubSeq(s, 1, Len(s) - 1)) + DigitValue(s[Len(s)])

\* The first position of one of the characters in s, 0 if there is none.
Find(s, chars) ==
    IF \E i \in 1 .. Len(s) : s[i] \in chars
    THEN CHOOSE i \in 1 .. Len(s) :
            s[i] \in chars /\ \A j \in 1 .. (i - 1) : s[j] \notin chars
    ELSE 0

\* "%+d" % n
SignedStr(n) == IF n < 0 THEN <<"-">> \o IntStr(-n) ELSE <<"+">> \o IntStr(n)

\* int(s) of an optionally signed string of digits
SignedOf(s) ==
    IF s # <<>> /\ s[1] = "-" THEN -IntOf(Tail(s))
    ELSE IF s # <<>> /\ s[1] = "+" THEN IntOf(Tail(s))
    ELSE IntOf(s)

\* c with its last k digits cut off: c \div 10^k
DropDigits(c, k) == IF k >= Len(IntStr(c)) THEN 0 ELSE c \div Pow10(k)

\* A number c * 10^e with c >= 0: a Decimal with coefficient c and exponent
\* e, or the shortest decimal that reads back as a float.
Dec(c, e) == [c |-> c, e |-> e]

\* A Python value passed as price, amount or quantity: an int (e = 0) or a
\* float.
IntValue(c) == [int |-> TRUE, c |-> c, e |-> 0]
FloatValue(c, e) == [int |-> FALSE, c |-> c, e |-> e]

\* Trailing zeros of the coefficient moved into the exponent; zero is 0 * 10^0.
RECURSIVE Stripped(_)
Stripped(d) ==
    IF d.c = 0 THEN Dec(0, 0)
    ELSE IF d.c % 10 = 0 THEN Stripped(Dec(d.c \div 10, d.e + 1))
    ELSE Dec(d.c, d.e)

\* repr(x) of a float: the shortest digits, in fixed notation when the
\* decimal point lies in -4 < decpt <= 16, else d.ddde-XX.
float_repr(x) ==
    LET d == Stripped(x)
        digits == IntStr(d.c)
        n == Len(digits)
        decpt == n + d.e
        exp10 == decpt - 1
    IN  IF -4 < decpt /\ decpt <= 16
        THEN IF decpt <= 0 THEN <<"0", ".">> \o Zeros(-decpt) \o digits
             ELSE IF decpt >= n THEN digits \o Zeros(decpt - n) \o <<".", "0">>
             ELSE SubSeq(digits, 1, decpt) \o <<".">> \o SubSeq(digits, decpt + 1, n)
        ELSE <<digits[1]>>
             \o (IF n > 1 THEN <<".">> \o Tail(digits) ELSE <<>>)
             \o <<"e", IF exp10 < 0 THEN "-" ELSE "+">>
             \o (IF exp10 > -10 /\ exp10 < 10 THEN <<"0">> ELSE <<>>)
             \o IntStr(IF exp10 < 0 THEN -exp10 ELSE exp10)

\* str(value)
py_str(value) == IF value.int THEN IntStr(value.c) ELSE float_repr(value)

\* Decimal(s): digits, an optional fraction, an optional exponent; trailing
\* zeros of the fraction are kept in the coefficient.
Decimal(s) ==
    LET epos == Find(s, {"e", "E"})
        mant == IF epos = 0 THEN s ELSE SubSeq(s, 1, epos - 1)
        expo == IF epos = 0 THEN 0 ELSE SignedOf(SubSeq(s, epos + 1, Len(s)))
        dot == Find(mant, {"."})
        intpart == IF dot = 0 THEN mant ELSE SubSeq(mant, 1, dot - 1)
        fracpart == IF dot = 0 THEN <<>> ELSE SubSeq(mant, dot + 1, Len(mant))
    IN  Dec(IntOf(intpart \o fracpart), expo - Len(fracpart))

\* d.quantize(exp, rounding=ROUND_DOWN): d with the exponent of exp, digits
\* beyond it cut off. (The values of the model stay far below the 28 digits
\* at which quantize raises InvalidOperation.)
quantize_ROUND_DOWN(d, exp) ==
    IF d.e >= exp.e
    THEN Dec(d.c * Pow10(d.e - exp.e), exp.e)
    ELSE Dec(DropDigits(d.c, exp.e - d.e), exp.e)

\* str(d) of a Decimal: plain notation when the exponent is <= 0 and the
\* number has more than -6 digits left of the point, else scientific.
Decimal_str(d) ==
    LET int == IntStr(d.c)
        leftdigits == d.e + Len(int)
        dotplace == IF d.e <= 0 /\ leftdigits > -6 THEN leftdigits ELSE 1
        intpart == IF dotplace <= 0 THEN <<"0">>
                   ELSE IF dotplace >= Len(int) THEN int \o Zeros(dotplace - Len(int))
                   ELSE SubSeq(int, 1, dotplace)
        fracpart == IF dotplace <= 0 THEN <<".">> \o Zeros(-dotplace) \o int
                    ELSE IF dotplace >= Len(int) THEN <<>>
                    ELSE <<".">> \o SubSeq(int, dotplace + 1, Len(int))
        exp == IF leftdigits = dotplace THEN <<>>
               ELSE <<"E">> \o SignedStr(leftdigits - dotplace)
    IN  intpart \o fracpart \o exp

\* format_str = '1.' + '0' * precision
format_str(precision) == <<"1", ".">> \o Zeros(precision)

\* _truncate_to_precision(value, precision)
_truncate_to_precision(value, precision) ==
    Decimal_str(quantize_ROUND_DOWN(Decimal(py_str(value)),
                                    Decimal(format_str(precision))))

FloatDigits == 7       \* significant decimal digits a float of the model holds

\* The digits of rem / b after the quotient q, until q has FloatDigits
\* significant digits or the division ends: [q, rem, e].
RECURSIVE divide_digits(_, _, _, _)
divide_digits(q, rem, b, e) ==
    IF rem = 0 \/ (q # 0 /\ Len(IntStr(q)) >= FloatDigits)
    THEN [q |-> q, rem |-> rem, e |-> e]
    ELSE divide_digits(10 * q + (10 * rem) \div b, (10 * rem) % b, b, e - 1)

\* a / b of two numbers (true division, the result is a float): the quotient
\* rounded to the nearest float, ties to even. A float of the model holds
\* FloatDigits decimal digits where a double holds 53 bits.
float_div(a, b) ==
    LET x == Stripped(Dec(a.c, a.e))
        y == Stripped(Dec(b.c, b.e))
        d == divide_digits(x.c \div y.c, x.c % y.c, y.c, x.e - y.e)
        up == 2 * d.rem > y.c \/ (2 * d.rem = y.c /\ d.q % 2 = 1)
        r == Stripped(Dec(IF up THEN d.q + 1 ELSE d.q, d.e))
    IN  FloatValue(r.c, r.e)

\* _get_precision_from_step(step_str): 0 for a whole step, else the number of
\* fractional digits of the step without its trailing zeros.
_get_precision_from_step(step_str) ==
    LET d_normalized == Stripped(Decimal(step_str))
    IN  IF d_normalized.e >= 0 THEN 0 ELSE -d_normalized.e

\* Mutant: the quantity is cut with the price precision.
quantity_precision_of_tick(tickSize, stepSize) == _get_precision_from_step(tickSize)

\* The two precisions _get_symbol_precision returns, from the tickSize of
\* the PRICE_FILTER and the stepSize of the LOT_SIZE filter.
price_precision_of(tickSize, stepSize) == _get_precision_from_step(tickSize)
quantity_precision_of(tickSize, stepSize) == _get_precision_from_step(stepSize)

\* The state of one fetch_data_symbols call: the arguments and the fetcher's
\* settings, the symbol (i) and timeframe (k) it is at, the timeframes fetched
\* for that symbol, all_data, the symbols passed to add_problematic_coin, and
\* every get_historical_data call with its outcome.
NoBatch ==
    [pc |-> "idle", symbols |-> <<>>, limit |-> 0, buffer |-> 0,
     use_extra_buffer |-> FALSE, exclusion_coins |-> FALSE,
     i |-> 1, k |-> 1, data |-> {}, all_data |-> <<>>,
     problematic |-> <<>>, requests |-> <<>>]

\* The state of a price or quantity computation: the arguments, then the
\* string returned (_truncate_to_precision) or the strings written to
\* details and passed to futures_create_order (a placement).
NoSizing ==
    [op |-> "none", value |-> IntValue(0), precision |-> 0, out |-> <<>>,
     amount |-> IntValue(0), price |-> IntValue(0), tickSize |-> <<>>, stepSize |-> <<>>,
     quantity |-> IntValue(0), details_price |-> <<>>, details_quantity |-> <<>>,
     order_quantity |-> <<>>, order_price |-> <<>>]

\* The sizing of place_market_order (price read from the ticker) and of
\* place_limit_order (price given): quantity = amount / price, both cut to
\* the symbol's precisions, written to details and used for the order.
order_sizing(z, amount, price, tickSize, stepSize) ==
    LET quantity == float_div(amount, price)
        price_precision == price_precision_of(tickSize, stepSize)
        quantity_precision == quantity_precision_of(tickSize, stepSize)
        details_price == _truncate_to_precision(price, price_precision)
        details_quantity == _truncate_to_precision(quantity, quantity_precision)
    IN  [z EXCEPT !.quantity = quantity,
                  !.details_price = details_price,
                  !.details_quantity = details_quantity,
                  !.order_quantity = details_quantity,
                  !.order_price = details_price]

---------------------------------------------------------------------------
(* State machine: trading *)

PositionTypes == {"LONG", "SHORT", "BUY", "SELL"}

\* close_position also takes no side (None) and values it ignores.
CloseTypes == PositionTypes \cup {"None", "BOTH"}

NoCall ==
    [op |-> "none", symbol |-> "None", position_type |-> "None",
     stop_loss_price |-> FALSE, take_profit_price |-> FALSE,
     exc |-> "none", msg |-> <<>>, res |-> Result0, calls |-> <<>>,
     amt_before |-> [s \in Symbols |-> 0], orders_before |-> {}, iso_before |-> {},
     file_before |-> NoFile]

\* The world a method starts in.
World ==
    [amt |-> positionAmt, orders |-> openOrders, iso |-> isolated_symbols,
     listsZero |-> listsZero, limit |-> positionLimit, calls |-> <<>>]

IsMarginCall(symbol, c) == c.c = "change_margin_type" /\ c.symbol = symbol

\* The margin-type calls for symbol among calls, and those not rejected.
MarginCallCount(calls, symbol) ==
    Len(SelectSeq(calls, LAMBDA c : IsMarginCall(symbol, c)))

MarginAcceptedCount(calls, symbol) ==
    Len(SelectSeq(calls, LAMBDA c : IsMarginCall(symbol, c) /\ c.resp # "api"))

\* The method ends in outcome o: the exchange and the client are as o left
\* them and the caller holds what the method returned or raised; a method
\* of the trade manager leaves the record file as o.file.
Finish(o, op, symbol, position_type, stop_loss_price, take_profit_price) ==
    /\ positionAmt' = o.w.amt
    /\ openOrders' = o.w.orders
    /\ isolated_symbols' = o.w.iso
    /\ marginCalls' = [s \in Symbols |-> marginCalls[s]
            + MarginCallCount(o.w.calls, s)]
    /\ marginAccepted' = [s \in Symbols |-> marginAccepted[s]
            + MarginAcceptedCount(o.w.calls, s)]
    /\ last' = [op |-> op, symbol |-> symbol, position_type |-> position_type,
                stop_loss_price |-> stop_loss_price,
                take_profit_price |-> take_profit_price,
                exc |-> o.exc, msg |-> o.msg, res |-> o.res, calls |-> o.w.calls,
                amt_before |-> positionAmt, orders_before |-> openOrders,
                iso_before |-> isolated_symbols, file_before |-> limit_sltp_rec]
    /\ previous' = last
    /\ limit_sltp_rec' = IF "file" \in DOMAIN o THEN o.file ELSE limit_sltp_rec
    /\ UNCHANGED <<listsZero, traded, placing, klineVars, numVars, positionLimit>>

Idle == last.op = "none"

\* The threads of the caller that share the client; a thread that runs no
\* placement.
Threads == {1, 2}

NoPlacement == [pc |-> "idle", symbol |-> "None", resp |-> "none"]

\* A placement for a symbol whose margin mode is still to be set issues a
\* margin-type call; the run observes at most MaxMarginCalls of them.
MayPlace(symbol) ==
    symbol \in isolated_symbols \/ marginCalls[symbol] < MaxMarginCalls

PlaceMarketOrder ==
    /\ Idle
    /\ \E symbol \in traded, position_type \in {"LONG", "SHORT"}, qty \in 1 .. MaxAmt,
          stop_loss_price \in BOOLEAN, take_profit_price \in BOOLEAN :
          /\ MayPlace(symbol)
          /\ \E o \in place_market_order(World, symbol, position_type, qty,
                                         stop_loss_price, take_profit_price) :
                Finish(o, "place_market_order", symbol, position_type,
                       stop_loss_price, take_profit_price)

PlaceLimitOrder ==
    /\ Idle
    /\ \E symbol \in traded, position_type \in {"LONG", "SHORT"}, qty \in 1 .. MaxAmt :
          /\ MayPlace(symbol)
          /\ \E o \in place_limit_order(World, symbol, position_type, qty) :
                Finish(o, "place_limit_order", symbol, position_type, FALSE, FALSE)

SetStopLossTakeProfit ==
    /\ Idle
    /\ \E symbol \in traded, side \in {"LONG", "SHORT"},
          stop_loss_price \in BOOLEAN, take_profit_price \in BOOLEAN :
          \E o \in set_stop_loss_take_profit(World, symbol, side,
                                             stop_loss_price, take_profit_price) :
             Finish(o, "set_stop_loss_take_profit", symbol, side,
                    stop_loss_price, take_profit_price)

ClosePosition ==
    /\ Idle
    /\ \E symbol \in traded, position_type \in CloseTypes :
          \E o \in close_position(World, symbol, position_type) :
             Finish(o, "close_position", symbol, position_type, FALSE, FALSE)

CleanOrphanOrders ==
    /\ Idle
    /\ \E o \in clean_orphan_orders(World) :
          Finish(o, "clean_orphan_orders", "None", "None", FALSE, FALSE)

CancelTypes == {"None", "LIMIT", "STOP_MARKET", "TAKE_PROFIT_MARKET"}

CancelOrder ==
    /\ Idle
    /\ \E symbol \in traded, type \in CancelTypes :
          \E o \in cancel_order(World, symbol, type) :
             Finish(o, "cancel_order", symbol, type, FALSE, FALSE)

AdjustStopLoss ==
    /\ Idle
    /\ \E symbol \in traded, side \in {"LONG", "SHORT"} :
          \E o \in adjust_stop_loss(World, symbol, side) :
             Finish(o, "adjust_stop_loss", symbol, side, TRUE, FALSE)

\* The strategy records the protection of a limit order it has placed.
RecordLimitSltp ==
    /\ Idle
    /\ \E symbol \in Symbols, side \in {"LONG", "SHORT"},
          stop_loss_price \in BOOLEAN, take_profit_price \in BOOLEAN :
          \E o \in record_limit_sltp(World, limit_sltp_rec, symbol, side,
                                     stop_loss_price, take_profit_price) :
             Finish(o, "record_limit_sltp", symbol, side,
                    stop_loss_price, take_profit_price)

CheckLimitStatus ==
    /\ Idle
    /\ \E o \in check_limit_status(World, limit_sltp_rec) :
          Finish(o, "check_limit_status", "None", "None", FALSE, FALSE)

\* The synchronous call is over: the caller has taken the result and the
\* client is ready for the next call.
ReturnToCaller ==
    /\ ~Idle
    /\ last' = NoCall
    /\ previous' = NoCall
    /\ UNCHANGED <<positionAmt, listsZero, openOrders, isolated_symbols, traded,
                   marginCalls, marginAccepted, limit_sltp_rec, placing, klineVars,
                   numVars, positionLimit>>

\* The orders and positions of the symbols in S.
OrdersOf(S) == {o \in Orders : o.symbol \in S}

\* A freshly constructed client; the account holds positions and open orders
\* in the symbols the caller trades, in any combination the exchange allows.
InitFor(tradedSets) ==
    /\ traded \in tradedSets
    /\ positionAmt \in {f \in [Symbols -> -MaxAmt .. MaxAmt] :
                          \A s \in Symbols \ traded : f[s] = 0}
    /\ listsZero \in BOOLEAN
    /\ positionLimit = MaxAmt
    /\ openOrders \in {S \in SUBSET OrdersOf(traded) : Cardinality(S) <= MaxOpenOrders}
    /\ isolated_symbols = {}
    /\ marginCalls = [s \in Symbols |-> 0]
    /\ marginAccepted = [s \in Symbols |-> 0]
    /\ last = NoCall
    /\ previous = NoCall
    /\ limit_sltp_rec = NoFile
    /\ placing = [t \in Threads |-> NoPlacement]

\* Order entry: the caller places orders on one symbol.
InitEntry == InitFor({{s} : s \in Symbols}) /\ market = IdleMarket /\ fetch = NoFetch
             /\ sizing = NoSizing /\ batch = NoBatch

NextEntry ==
    \/ PlaceMarketOrder
    \/ PlaceLimitOrder
    \/ ReturnToCaller

SpecEntry == InitEntry /\ [][NextEntry]_vars

\* Order entry on an account whose position limit leaves room for an entry on
\* top of the position it holds.
InitRollback ==
    /\ traded = {"AUSDT"}
    /\ positionAmt \in {f \in [Symbols -> -MaxAmt .. MaxAmt] :
                          \A s \in Symbols \ traded : f[s] = 0}
    /\ listsZero \in BOOLEAN
    /\ positionLimit = MaxPosition
    /\ openOrders \in {S \in SUBSET OrdersOf(traded) : Cardinality(S) <= 1}
    /\ isolated_symbols = {}
    /\ marginCalls = [s \in Symbols |-> 0]
    /\ marginAccepted = [s \in Symbols |-> 0]
    /\ last = NoCall
    /\ previous = NoCall
    /\ limit_sltp_rec = NoFile
    /\ placing = [t \in Threads |-> NoPlacement]
    /\ market = IdleMarket /\ fetch = NoFetch /\ sizing = NoSizing /\ batch = NoBatch

NextRollback ==
    \/ PlaceMarketOrder
    \/ ReturnToCaller

SpecRollback == InitRollback /\ [][NextRollback]_vars

\* Reconciliation: the caller closes positions and sweeps orphan orders over
\* the whole account.
InitSweep == InitFor({Symbols}) /\ market = IdleMarket /\ fetch = NoFetch
             /\ sizing = NoSizing /\ batch = NoBatch

NextSweep ==
    \/ ClosePosition
    \/ CleanOrphanOrders
    \/ ReturnToCaller

SpecSweep == InitSweep /\ [][NextSweep]_vars

\* The client as a whole: every mutating operation, on one symbol.
InitClient ==
    /\ InitFor({{"AUSDT"}})
    /\ market = IdleMarket /\ fetch = NoFetch /\ sizing = NoSizing /\ batch = NoBatch

NextClient ==
    \/ PlaceMarketOrder
    \/ PlaceLimitOrder
    \/ SetStopLossTakeProfit
    \/ ClosePosition
    \/ CancelOrder
    \/ CleanOrphanOrders
    \/ ReturnToCaller

SpecClient == InitClient /\ [][NextClient]_vars

\* Cancellation over the whole account: orders are open in every symbol.
InitCancel == InitFor({Symbols}) /\ market = IdleMarket /\ fetch = NoFetch
              /\ sizing = NoSizing /\ batch = NoBatch

NextCancel ==
    \/ CancelOrder
    \/ ReturnToCaller

SpecCancel == InitCancel /\ [][NextCancel]_vars

\* The market order workflow: the caller places a market order and, holding
\* its result (or its exception), closes the position on the symbol.
CloseAfterEntry ==
    /\ last.op = "place_market_order"
    /\ \E position_type \in PositionTypes :
          \E o \in close_position(World, last.symbol, position_type) :
             Finish(o, "close_position", last.symbol, position_type, FALSE, FALSE)

\* The workflow runs on one symbol and starts without open orders.
InitWorkflow ==
    /\ InitFor({{"AUSDT"}})
    /\ openOrders = {}
    /\ market = IdleMarket /\ fetch = NoFetch /\ sizing = NoSizing /\ batch = NoBatch

NextWorkflow ==
    \/ PlaceMarketOrder
    \/ CloseAfterEntry
    \/ ReturnToCaller

SpecWorkflow == InitWorkflow /\ [][NextWorkflow]_vars

\* The trade manager on top of the client: it adjusts the stop-loss of the
\* traded symbol, records the protection of limit orders and runs the
\* reconciliation pass.
InitManage ==
    /\ InitFor({{"AUSDT"}})
    /\ market = IdleMarket /\ fetch = NoFetch /\ sizing = NoSizing /\ batch = NoBatch

NextManage ==
    \/ AdjustStopLoss
    \/ RecordLimitSltp
    \/ CheckLimitStatus
    \/ ReturnToCaller

SpecManage == InitManage /\ [][NextManage]_vars

---------------------------------------------------------------------------
(* State machine: placements on threads that share one client *)
(*                                                                         *)
(* A placement is split where another thread can run: at every exchange    *)
(* call and at the sleep.  The test of self._isolated_symbols, the call    *)
(* futures_change_margin_type and the add() are three steps; the client    *)
(* holds no lock.                                                          *)

\* The thread starts place_limit_order(symbol, ...).
StartPlacement ==
    \E t \in Threads, symbol \in traded :
       /\ placing[t].pc = "idle"
       /\ placing' = [placing EXCEPT ![t] = [pc |-> "precision", symbol |-> symbol,
                                             resp |-> "none"]]
       /\ UNCHANGED <<positionAmt, listsZero, openOrders, isolated_symbols, traded,
                      marginCalls, marginAccepted, last, previous, limit_sltp_rec,
                      klineVars, numVars, positionLimit>>

\* The thread goes from pc to next, or to "failed" when the call raised.
Moves(t, pc, ok, next) ==
    /\ placing[t].pc = pc
    /\ placing' = [placing EXCEPT ![t].pc = IF ok THEN next ELSE "failed"]

\* self._get_symbol_precision(symbol)
PrecisionStep ==
    \E t \in Threads :
       /\ \E pr \in _get_symbol_precision(World, placing[t].symbol) :
             Moves(t, "precision", pr.exc = "none", "leverage")
       /\ UNCHANGED <<positionAmt, listsZero, openOrders, isolated_symbols, traded,
                      marginCalls, marginAccepted, last, previous, limit_sltp_rec,
                      klineVars, numVars, positionLimit>>

\* self.client.futures_change_leverage(symbol=symbol, leverage=leverage)
LeverageStep ==
    \E t \in Threads :
       /\ \E lv \in change_leverage(World, placing[t].symbol) :
             Moves(t, "leverage", lv.exc = "none", "check")
       /\ UNCHANGED <<positionAmt, listsZero, openOrders, isolated_symbols, traded,
                      marginCalls, marginAccepted, last, previous, limit_sltp_rec,
                      klineVars, numVars, positionLimit>>

\* `if symbol not in self._isolated_symbols`
MarginCheck ==
    \E t \in Threads :
       /\ placing[t].pc = "check"
       /\ placing' = [placing EXCEPT ![t].pc =
                         IF needs_margin_call(World, placing[t].symbol)
                         THEN "call" ELSE "submit"]
       /\ UNCHANGED <<positionAmt, listsZero, openOrders, isolated_symbols, traded,
                      marginCalls, marginAccepted, last, previous, limit_sltp_rec,
                      klineVars, numVars, positionLimit>>

\* self.client.futures_change_margin_type(symbol=symbol, marginType="ISOLATED"):
\* an error other than "No need to change margin type." is re-raised.
MarginCall ==
    \E t \in Threads, r \in MarginResp :
       /\ placing[t].pc = "call"
       /\ placing' = [placing EXCEPT ![t].pc = IF r = "api" THEN "failed" ELSE "mark",
                                     ![t].resp = r]
       /\ marginCalls' = [marginCalls EXCEPT ![placing[t].symbol] = @ + 1]
       /\ marginAccepted' = [marginAccepted EXCEPT ![placing[t].symbol] =
                                IF r = "api" THEN @ ELSE @ + 1]
       /\ UNCHANGED <<positionAmt, listsZero, openOrders, isolated_symbols, traded,
                      last, previous, limit_sltp_rec, klineVars, numVars, positionLimit>>

\* self._isolated_symbols.add(symbol)
MarginMark ==
    \E t \in Threads :
       /\ placing[t].pc = "mark"
       /\ isolated_symbols' = marked(isolated_symbols, placing[t].symbol, placing[t].resp)
       /\ placing' = [placing EXCEPT ![t].pc = "sleep"]
       /\ UNCHANGED <<positionAmt, listsZero, openOrders, traded, marginCalls,
                      marginAccepted, last, previous, limit_sltp_rec, klineVars, numVars, positionLimit>>

\* time.sleep(7)
MarginSleep ==
    \E t \in Threads :
       /\ Moves(t, "sleep", TRUE, "submit")
       /\ UNCHANGED <<positionAmt, listsZero, openOrders, isolated_symbols, traded,
                      marginCalls, marginAccepted, last, previous, limit_sltp_rec,
                      klineVars, numVars, positionLimit>>

\* self.client.futures_create_order(..., type="LIMIT", ..., timeInForce="GTC");
\* the placement returns its result.
SubmitStep ==
    \E t \in Threads :
       LET order == [symbol |-> placing[t].symbol, kind |-> "normal", type |-> "LIMIT"] IN
       \E r \in OpenResp(World, order, WriteResp) :
          /\ Moves(t, "submit", r = "ok", "done")
          /\ openOrders' = IF r = "ok" THEN openOrders \cup {order} ELSE openOrders
          /\ UNCHANGED <<positionAmt, listsZero, isolated_symbols, traded, marginCalls,
                         marginAccepted, last, previous, limit_sltp_rec, klineVars, numVars, positionLimit>>

\* A freshly constructed client shared by the threads, each about to place
\* one order; the account has no open orders.
InitThreads ==
    /\ InitFor({{s} : s \in Symbols} \cup {Symbols})
    /\ openOrders = {}
    /\ market = IdleMarket /\ fetch = NoFetch /\ sizing = NoSizing /\ batch = NoBatch

NextThreads ==
    \/ StartPlacement
    \/ PrecisionStep
    \/ LeverageStep
    \/ MarginCheck
    \/ MarginCall
    \/ MarginMark
    \/ MarginSleep
    \/ SubmitStep

SpecThreads == InitThreads /\ [][NextThreads]_vars

---------------------------------------------------------------------------
(* State machine: history fetching *)

LimitArgs == {None} \cup (1 .. SmallLimit) \cup ((max_limit - 1) .. (max_limit + OverLimit))

\* since: none, the first bar, the bar before the last, a time inside it.
SinceArgs(m) ==
    {t \in {0, Interval, (m.nbars - 1) * Interval, (m.nbars - 1) * Interval + 1} : t >= 0}

GetHistoricalData ==
    /\ fetch.pc = "idle"
    /\ \E limit \in LimitArgs, closed \in BOOLEAN, since \in SinceArgs(market) :
          fetch' = get_historical_data(market, KlineSymbol, limit, closed, since)
    /\ UNCHANGED <<market, tradeVars, numVars, positionLimit>>

\* status 200: the page goes back to get_historical_data, which runs to its
\* next page request or to its end.
Respond200 ==
    /\ fetch.pc = "waiting"
    /\ LET klines == Klines(market, fetch.req)
       IN  fetch' = page_returned([fetch EXCEPT !.responses = Append(@, 200),
                                                !.page = klines,
                                                !.answered = fetch.asked],
                                  klines, Now(market))
    /\ UNCHANGED <<market, tradeVars, numVars, positionLimit>>

Count429(responses) == Len(SelectSeq(responses, LAMBDA s : s = 429))

\* status 429: sleep retry-after + 1 seconds, then the same request again.
Respond429 ==
    /\ fetch.pc = "waiting"
    /\ Count429(fetch.responses) < MaxRetries
    /\ \E header \in {None, MaxRetryAfter} :
          fetch' = [fetch EXCEPT !.responses = Append(@, 429),
                                 !.slept = Append(@, retry_after(header)),
                                 !.req = retry_request(@),
                                 !.requests = Append(@, retry_request(fetch.req))]
    /\ UNCHANGED <<market, tradeVars, numVars, positionLimit>>

\* any other status: Exception, which get_historical_data lets through.
RespondError ==
    /\ fetch.pc = "waiting"
    /\ \E status \in {418, 500} :
          fetch' = klines_raised([fetch EXCEPT !.responses = Append(@, status)],
                                 "exc", "status")
    /\ UNCHANGED <<market, tradeVars, numVars, positionLimit>>

ReturnKlines ==
    /\ fetch.pc = "done"
    /\ fetch' = NoFetch
    /\ UNCHANGED <<market, tradeVars, numVars, positionLimit>>

\* The caller only fetches history; the account is empty.
InitHistory ==
    /\ InitFor({{}})
    /\ listsZero = FALSE
    /\ market \in Markets
    /\ fetch = NoFetch
    /\ sizing = NoSizing /\ batch = NoBatch

NextHistory ==
    \/ GetHistoricalData
    \/ Respond200
    \/ Respond429
    \/ RespondError
    \/ ReturnKlines

SpecHistory == InitHistory /\ [][NextHistory]_vars

\* requests.get is a blocking call: the exchange answers every page request,
\* and with 429 at most MaxRetries times during one fetch.  The symbol is a
\* recently listed one with no bar missing.
InitHistoryLive == InitHistory /\ market.nbars <= ShortHistory /\ market.gap = 0

SpecHistoryLive ==
    /\ InitHistoryLive /\ [][NextHistory]_vars
    /\ WF_vars(Respond200 \/ Respond429 \/ RespondError)

---------------------------------------------------------------------------
(* State machine: prices and quantities *)

\* Coefficients of the values passed in; a float is given by its shortest
\* digits.
Coefficients == {0, 1, 5, 12, 15, 19, 999, 123456}

Values ==
    {IntValue(c) : c \in {0, 1, 10, 123456}}
    \cup {FloatValue(c, e) : <<c, e>> \in
             {t \in Coefficients \X (-MaxScale .. 1) : Stripped(Dec(t[1], t[2])) = Dec(t[1], t[2])}}

\* The numbers the computation meets fit the integers of the model.
Representable(value, precision) ==
    Len(IntStr(value.c)) + Max(value.e + precision, 0) < IntDigits

\* No trading and no fetch goes on while prices and quantities are computed.
QuietAccount ==
    /\ traded = {"AUSDT"}
    /\ positionAmt = [s \in Symbols |-> 0]
    /\ listsZero = FALSE
    /\ positionLimit = MaxAmt
    /\ openOrders = {}
    /\ isolated_symbols = {}
    /\ marginCalls = [s \in Symbols |-> 0]
    /\ marginAccepted = [s \in Symbols |-> 0]
    /\ last = NoCall
    /\ previous = NoCall
    /\ limit_sltp_rec = NoFile
    /\ placing = [t \in Threads |-> NoPlacement]
    /\ market = IdleMarket
    /\ fetch = NoFetch

TruncateToPrecision ==
    /\ sizing.op = "call"
    /\ sizing' = [sizing EXCEPT !.op = "_truncate_to_precision",
                                !.out = _truncate_to_precision(sizing.value, sizing.precision)]
    /\ UNCHANGED <<tradeVars, klineVars, batch, positionLimit>>

InitPrecision ==
    /\ QuietAccount /\ batch = NoBatch
    /\ sizing \in {[NoSizing EXCEPT !.op = "call", !.value = v, !.precision = p] :
                      <<v, p>> \in {t \in Values \X (0 .. MaxPrecision) :
                                      Representable(t[1], t[2])}}

\* What the caller passes as amount and the prices of the ticker.
Amounts ==
    {IntValue(2), IntValue(50), IntValue(100), FloatValue(125, -1), FloatValue(123456, -5)}

Prices == {FloatValue(c, e) : <<c, e>> \in {1, 3, 19, 999} \X {-2, 0, 2}}

\* tickSize and stepSize strings of the exchange's filters
Steps ==
    { <<"1">>,
      <<"0", ".", "1">>,
      <<"0", ".", "1", "0">>,
      <<"0", ".", "0", "0", "1">>,
      <<"0", ".", "0", "0", "1", "0", "0", "0", "0", "0">>,
      <<"0", ".", "0", "0", "0", "0", "1">>,
      <<"1", ".", "0", "0", "0", "0", "0", "0", "0", "0">> }

PlacementMethods == {"place_market_order", "place_limit_order"}

\* One placement reached its sizing: op names the method.
SizeOrder ==
    /\ sizing.op = "placing"
    /\ \E method \in PlacementMethods :
          sizing' = [order_sizing(sizing, sizing.amount, sizing.price,
                                  sizing.tickSize, sizing.stepSize)
                       EXCEPT !.op = method]
    /\ UNCHANGED <<tradeVars, klineVars, batch, positionLimit>>

SizingArgs ==
    {[NoSizing EXCEPT !.op = "placing", !.amount = t[1], !.price = t[2],
                      !.tickSize = t[3], !.stepSize = t[4]] :
       t \in {u \in Amounts \X Prices \X Steps \X Steps :
                /\ Representable(u[2], _get_precision_from_step(u[3]))
                /\ Representable(float_div(u[1], u[2]), _get_precision_from_step(u[3]))
                /\ Representable(float_div(u[1], u[2]), _get_precision_from_step(u[4]))}}

InitSizing == QuietAccount /\ batch = NoBatch /\ sizing \in SizingArgs

NextPrecision == TruncateToPrecision \/ SizeOrder

SpecPrecision == (InitPrecision \/ InitSizing) /\ [][NextPrecision]_vars

---------------------------------------------------------------------------
(* The protective orders of set_stop_loss_take_profit *)

\* str.upper() of a side
upper(side) ==
    CASE side = "buy" -> "BUY"
      [] side = "long" -> "LONG"
      [] side = "sell" -> "SELL"
      [] side = "short" -> "SHORT"
      [] OTHER -> side

\* stop_loss_price=None, take_profit_price=None
NoPrice == IntValue(None)

\* `if stop_loss_price:` is false for None and for zero
given(price) == price # NoPrice /\ price.c # 0

\* Mutant: the order is triggered on the last traded price.
protective_order_contract_price(side, type, price, price_precision) ==
    [side |-> protective_side(upper(side)), type |-> type,
     triggerPrice |-> _truncate_to_precision(price, price_precision),
     closePosition |-> TRUE, workingType |-> "CONTRACT_PRICE", priceProtect |-> FALSE]

\* The arguments of futures_create_algo_order for one leg.
protective_order(side, type, price, price_precision) ==
    [side |-> protective_side(upper(side)), type |-> type,
     triggerPrice |-> _truncate_to_precision(price, price_precision),
     closePosition |-> TRUE, workingType |-> "MARK_PRICE", priceProtect |-> FALSE]

\* The orders one call submits when the exchange accepts each: the stop-loss
\* leg, then the take-profit leg, each only if its price is given.
protective_orders(side, stop_loss_price, take_profit_price, tickSize, stepSize) ==
    LET price_precision == price_precision_of(tickSize, stepSize) IN
    (IF given(stop_loss_price)
     THEN <<protective_order(side, "STOP_MARKET", stop_loss_price, price_precision)>>
     ELSE <<>>)
    \o (IF given(take_profit_price)
        THEN <<protective_order(side, "TAKE_PROFIT_MARKET", take_profit_price,
                                price_precision)>>
        ELSE <<>>)

\* The state of one set_stop_loss_take_profit: the arguments, the symbol's
\* filters and the orders submitted.
NoProtection ==
    [op |-> "none", side |-> "", stop_loss_price |-> NoPrice, take_profit_price |-> NoPrice,
     tickSize |-> <<>>, stepSize |-> <<>>, orders |-> <<>>]

AttachProtection ==
    /\ sizing.op = "protecting"
    /\ sizing' = [sizing EXCEPT
                    !.op = "set_stop_loss_take_profit",
                    !.orders = protective_orders(sizing.side, sizing.stop_loss_price,
                                                 sizing.take_profit_price,
                                                 sizing.tickSize, sizing.stepSize)]
    /\ UNCHANGED <<tradeVars, klineVars, batch, positionLimit>>

Sides == {"BUY", "LONG", "SELL", "SHORT", "long", "short"}

TriggerPrices == Prices \cup {FloatValue(123456, -5), IntValue(0), NoPrice}

ProtectionArgs ==
    {[NoProtection EXCEPT !.op = "protecting", !.side = t[1], !.stop_loss_price = t[2],
                          !.take_profit_price = t[3], !.tickSize = t[4],
                          !.stepSize = <<"0", ".", "0", "0", "1">>] :
       t \in {u \in Sides \X TriggerPrices \X TriggerPrices \X Steps :
                /\ given(u[2]) => Representable(u[2], _get_precision_from_step(u[4]))
                /\ given(u[3]) => Representable(u[3], _get_precision_from_step(u[4]))}}

InitProtection == QuietAccount /\ batch = NoBatch /\ sizing \in ProtectionArgs

NextProtection == AttachProtection

SpecProtection == InitProtection /\ [][NextProtection]_vars

---------------------------------------------------------------------------
(* The order of close_position *)

\* Mutant: the close order is not reduce-only.
close_order_plain(negative, amt, qty_precision) ==
    [side |-> IF ~negative THEN "SELL" ELSE "BUY", type |-> "MARKET",
     quantity |-> _truncate_to_precision(amt, qty_precision), reduceOnly |-> FALSE]

\* The arguments of futures_create_order in close_position, for a position
\* amount of the given sign and absolute value.
close_order(negative, amt, qty_precision) ==
    [side |-> IF ~negative THEN "SELL" ELSE "BUY", type |-> "MARKET",
     quantity |-> _truncate_to_precision(amt, qty_precision), reduceOnly |-> TRUE]

\* The state of one sizing of a close order: float(positionAmt) as sign and
\* absolute value, the symbol's filters, the order submitted.
NoClosing ==
    [op |-> "none", negative |-> FALSE, amt |-> FloatValue(0, 0),
     tickSize |-> <<>>, stepSize |-> <<>>,
     order |-> [side |-> "", type |-> "", quantity |-> <<>>, reduceOnly |-> FALSE]]

SizeClose ==
    /\ sizing.op = "closing"
    /\ sizing' = [sizing EXCEPT
                    !.op = "close_position",
                    !.order = close_order(sizing.negative, sizing.amt,
                                          quantity_precision_of(sizing.tickSize,
                                                                sizing.stepSize))]
    /\ UNCHANGED <<tradeVars, klineVars, batch, positionLimit>>

\* Absolute values of positionAmt as the exchange reports it
PositionAmounts ==
    {FloatValue(c, e) : <<c, e>> \in {<<2, 0>>, <<125, -1>>, <<5, -3>>, <<123456, -5>>,
                                      <<1999, -3>>}}

ClosingArgs ==
    {[NoClosing EXCEPT !.op = "closing", !.negative = t[1], !.amt = t[2],
                       !.tickSize = <<"0", ".", "1", "0">>, !.stepSize = t[3]] :
       t \in {u \in BOOLEAN \X PositionAmounts \X Steps :
                Representable(u[2], _get_precision_from_step(u[3]))}}

InitClosing == QuietAccount /\ batch = NoBatch /\ sizing \in ClosingArgs

\* close_position on an account, and the sizing of its order.
NextClose ==
    \/ ClosePosition
    \/ ReturnToCaller
    \/ SizeClose

SpecClose == (InitSweep \/ InitClosing) /\ [][NextClose]_vars

---------------------------------------------------------------------------
(* BackDataFetcher: fetch_data, fetch_data_symbols *)

EXTRA_BUFFER == 10

MaxBatch == 2          \* longest list of symbols passed to fetch_data_symbols

\* The timeframes of fetch_data in the order it fetches them, and what the
\* limit is divided by for each.
Timeframes == <<"5m", "15m", "1h", "4h", "1d">>
Divisors == <<1, 3, 12, 48, 288>>

\* limit // d + buffer + extra of the k-th timeframe
timeframe_limit(k, limit, buffer, use_extra_buffer) ==
    LET extra == IF use_extra_buffer THEN EXTRA_BUFFER ELSE 0
    IN  (limit \div Divisors[k]) + buffer + extra

\* What get_historical_data can do when asked for limit bars: raise, or
\* return a series with so many distinct open times.
HistoryAnswers(limit) ==
    {[exc |-> "exc", distinct |-> 0]}
    \cup {[exc |-> "none", distinct |-> n] : n \in {limit - 1, limit} \cap Nat}

\* get_historical_data_and_check: the exception it ends with, "none" when it
\* returns the data.
get_historical_data_and_check(answer, limit) ==
    IF answer.exc # "none" THEN answer.exc
    ELSE IF answer.distinct < limit THEN "value"
    ELSE "none"

\* The get_historical_data call for timeframe k of the symbol the batch is at.
batch_request(b, answer) ==
    [symbol |-> b.symbols[b.i], interval |-> Timeframes[b.k],
     limit |-> timeframe_limit(b.k, b.limit, b.buffer, b.use_extra_buffer),
     exc |-> answer.exc, distinct |-> answer.distinct]

\* all_data[symbol] = data
set_all_data(all_data, symbol, data) ==
    [s \in DOMAIN all_data \cup {symbol} |-> IF s = symbol THEN data ELSE all_data[s]]

\* Mutant: the batch ends at the first symbol that fails.
symbol_failed_stops(b) ==
    [b EXCEPT !.problematic = IF b.exclusion_coins THEN Append(@, b.symbols[b.i]) ELSE @,
              !.i = Len(b.symbols) + 1, !.k = 1, !.data = {}]

\* The except branch of fetch_data_symbols: the symbol goes to the exclusion
\* record if there is one, and the loop goes on with the next symbol.
symbol_failed(b) ==
    [b EXCEPT !.problematic = IF b.exclusion_coins THEN Append(@, b.symbols[b.i]) ELSE @,
              !.i = @ + 1, !.k = 1, !.data = {}]

\* One timeframe of fetch_data returned; after the last one the dict is
\* stored in all_data and the loop goes on with the next symbol.
timeframe_fetched(b) ==
    IF b.k < Len(Timeframes)
    THEN [b EXCEPT !.k = @ + 1, !.data = @ \cup {Timeframes[b.k]}]
    ELSE [b EXCEPT !.all_data = set_all_data(@, b.symbols[b.i],
                                             b.data \cup {Timeframes[b.k]}),
                   !.i = @ + 1, !.k = 1, !.data = {}]

Fetching == batch.pc = "fetch_data_symbols" /\ batch.i <= Len(batch.symbols)

\* One get_historical_data_and_check of fetch_data returns its data.
FetchTimeframe ==
    /\ Fetching
    /\ \E answer \in HistoryAnswers(timeframe_limit(batch.k, batch.limit, batch.buffer,
                                                    batch.use_extra_buffer)) :
          /\ get_historical_data_and_check(
                 answer, timeframe_limit(batch.k, batch.limit, batch.buffer,
                                         batch.use_extra_buffer)) = "none"
          /\ batch' = [timeframe_fetched(batch) EXCEPT
                         !.requests = Append(@, batch_request(batch, answer))]
    /\ UNCHANGED <<tradeVars, klineVars, sizing, positionLimit>>

\* One get_historical_data_and_check raises: fetch_data is left and the
\* except branch of fetch_data_symbols runs.
FetchRaises ==
    /\ Fetching
    /\ \E answer \in HistoryAnswers(timeframe_limit(batch.k, batch.limit, batch.buffer,
                                                    batch.use_extra_buffer)) :
          /\ get_historical_data_and_check(
                 answer, timeframe_limit(batch.k, batch.limit, batch.buffer,
                                         batch.use_extra_buffer)) # "none"
          /\ batch' = [symbol_failed(batch) EXCEPT
                         !.requests = Append(@, batch_request(batch, answer))]
    /\ UNCHANGED <<tradeVars, klineVars, sizing, positionLimit>>

\* return all_data
ReturnAllData ==
    /\ batch.pc = "fetch_data_symbols" /\ batch.i > Len(batch.symbols)
    /\ batch' = [batch EXCEPT !.pc = "returned"]
    /\ UNCHANGED <<tradeVars, klineVars, sizing, positionLimit>>

BatchSymbols == {"AUSDT", "BUSDT", "CUSDT"}

\* Lists of distinct symbols of at most MaxBatch entries
SymbolLists ==
    UNION {{q \in [1 .. n -> BatchSymbols] : \A a, b \in 1 .. n : q[a] = q[b] => a = b}
           : n \in 0 .. MaxBatch}

BatchArgs ==
    {[NoBatch EXCEPT !.pc = "fetch_data_symbols", !.symbols = t[1], !.limit = t[2],
                     !.buffer = t[3], !.use_extra_buffer = t[4], !.exclusion_coins = t[5]] :
       t \in SymbolLists \X {3, 100} \X {0, 1} \X BOOLEAN \X BOOLEAN}

InitBatch == QuietAccount /\ sizing = NoSizing /\ batch \in BatchArgs

NextBatch ==
    \/ FetchTimeframe
    \/ FetchRaises
    \/ ReturnAllData

SpecBatch == InitBatch /\ [][NextBatch]_vars

---------------------------------------------------------------------------
(* Properties: order entry and rollback *)

Placed == last.op = "place_market_order"

\* The i-th call of the last operation is a protective-order submit that the
\* exchange rejected (a BinanceAPIException).
RejectedAt(i) ==
    /\ i \in 1 .. Len(last.calls)
    /\ last.calls[i].c = "create_algo_order"
    /\ last.calls[i].resp = "api"

ProtectionRejected == \E i \in 1 .. Len(last.calls) : RejectedAt(i)

\* seq ends with suffix
EndsWith(seq, suffix) ==
    /\ Len(suffix) <= Len(seq)
    /\ SubSeq(seq, Len(seq) - Len(suffix) + 1, Len(seq)) = suffix

\* The error the exchange rejected the protective order with.
ProtectionError ==
    LET i == CHOOSE k \in 1 .. Len(last.calls) : RejectedAt(k)
    IN  ApiError("create_algo_order", last.calls[i].type)

\* C1 (as claimed): when the entry order of place_market_order is accepted and
\* the exchange rejects a requested stop-loss/take-profit, place_market_order
\* returns, without raising, a result with success = false whose error message
\* embeds the protection error and whose orderId is the entry order's id.
C1_ReturnsFailedResult ==
    (Placed /\ ProtectionRejected) =>
        /\ last.exc = "none"
        /\ ~last.res.success
        /\ EndsWith(last.res.error, ProtectionError)
        /\ last.res.orderId = <<"MARKET", entry_side(last.position_type), "">>

\* The case of C1: the rejection reaches the caller as a plain Exception that
\* embeds the protection error.
C1_Witness ==
    /\ Placed /\ ProtectionRejected
    /\ last.exc = "exc"
    /\ EndsWith(last.msg, ProtectionError)

RollbackAnswered(i) ==
    \A j \in (i + 1) .. Len(last.calls) :
        /\ last.calls[j].resp = "ok"
        /\ last.calls[j].c = "create_order" => last.calls[j].ret = last.calls[j].qty

---------------------------------------------------------------------------
(* Properties: margin mode *)

Placement == last.op \in {"place_market_order", "place_limit_order"}

MarginCallsIn(calls, symbol) == MarginCallCount(calls, symbol)

SleepsIn(calls) == Len(SelectSeq(calls, LAMBDA c : c.c = "sleep"))

\* The placement got as far as _set_isolated_margin: leverage was set.
ReachedMargin ==
    \E i \in 1 .. Len(last.calls) :
        last.calls[i].c = "change_leverage" /\ last.calls[i].resp = "ok"

\* C3: once a margin-mode call for a symbol was accepted or answered "No need
\* to change margin type.", the symbol is marked, exactly one such call has
\* been accepted for it, and a later _set_isolated_margin for the symbol issues
\* no margin-mode call and does not sleep.
C3_SecondCallIsFree ==
    /\ \A s \in Symbols : s \in isolated_symbols <=> marginAccepted[s] = 1
    /\ (Placement /\ ReachedMargin /\ last.symbol \notin last.iso_before) =>
          /\ MarginCallsIn(last.calls, last.symbol) = 1
          /\ \A i \in 1 .. Len(last.calls) :
                (IsMarginCall(last.symbol, last.calls[i]) /\ last.calls[i].resp # "api")
                    => last.symbol \in isolated_symbols
    /\ (Placement /\ last.symbol \in last.iso_before) =>
          /\ MarginCallsIn(last.calls, last.symbol) = 0
          /\ SleepsIn(last.calls) = 0

\* A second placement on a marked symbol that went past the margin step.
C3_Witness ==
    /\ Placement /\ ReachedMargin
    /\ last.symbol \in last.iso_before
    /\ marginCalls[last.symbol] = 1
    /\ \E i \in 1 .. Len(last.calls) : last.calls[i].c = "create_order"

\* C4 (as claimed): at most one margin-mode call is issued per symbol, also
\* when a margin-mode call fails with an error other than "no change needed".
C4_AtMostOneCall == \A s \in Symbols : marginCalls[s] <= 1

\* C4 (amended): per symbol at most one margin-mode call is accepted or
\* answered "no change needed"; a call that fails with another error leaves the
\* symbol unmarked, so every margin-mode call but the last one issued for a
\* symbol failed with such an error, and the next placement issues it again.
C4_AtMostOneAccepted ==
    \A s \in Symbols :
        /\ marginAccepted[s] <= 1
        /\ s \notin isolated_symbols => marginAccepted[s] = 0
        /\ (Placement /\ ReachedMargin /\ last.symbol = s /\ s \notin last.iso_before)
              => MarginCallsIn(last.calls, s) = 1

\* The call was issued twice for a symbol: rejected, then accepted.
C4_Witness ==
    \E s \in Symbols :
        /\ marginCalls[s] = 2 /\ marginAccepted[s] = 1
        /\ Placement /\ last.symbol = s /\ s \notin last.iso_before
        /\ s \in isolated_symbols

---------------------------------------------------------------------------
(* Properties: reconciliation *)

Swept == last.op = "clean_orphan_orders"

Closed == last.op = "close_position"

\* The open orders the last operation cancelled.
CancelledOrders ==
    { [symbol |-> last.calls[i].symbol,
       kind |-> IF last.calls[i].key = "orderId" THEN "normal" ELSE "algo",
       type |-> last.calls[i].type]
      : i \in {k \in 1 .. Len(last.calls) :
                 last.calls[k].c = "cancel_order" /\ last.calls[k].resp = "ok"} }

\* The protective orders of symbols without an open position, before the sweep.
OrphanOrders ==
    { o \in last.orders_before :
        o.type \in CLOSING_ORDER_TYPES /\ last.amt_before[o.symbol] = 0 }

\* C6 (as claimed): after a successful clean_orphan_orders sweep the cancelled
\* orders are exactly the protective orders of the symbols that have no open
\* position.
C6_CancelsExactlyOrphans ==
    (Swept /\ last.res.success) =>
        /\ CancelledOrders = OrphanOrders
        /\ openOrders = last.orders_before \ OrphanOrders

\* The case of C6: a successful sweep over an account that holds an orphan.
C6_Witness ==
    /\ Swept /\ last.res.success
    /\ OrphanOrders # {}
    /\ CancelledOrders = {}

\* The first call of close_position, the position read, was answered.
PositionRead ==
    /\ Len(last.calls) >= 1
    /\ last.calls[1].c = "position_information"
    /\ last.calls[1].resp = "ok"

\* The requested side names a side and the live position is on the other one,
\* or there is no position.
NothingToClose ==
    LET amt == last.amt_before[last.symbol] IN
    \/ amt = 0
    \/ last.position_type \in {"LONG", "BUY"} /\ amt < 0
    \/ last.position_type \in {"SHORT", "SELL"} /\ amt > 0

\* C9: close_position for a side the live position is not on, or for a symbol
\* with no position (or amount zero), returns success = true with
\* position_found = false and issues no order-submit and no order-cancel call.
C9_MismatchIsNoOp ==
    (Closed /\ PositionRead /\ NothingToClose) =>
        /\ last.exc = "none"
        /\ last.res.success
        /\ last.res.position_found = "false"
        /\ last.res.orderId = <<>>
        /\ \A i \in 1 .. Len(last.calls) :
              last.calls[i].c \notin {"create_order", "create_algo_order", "cancel_order"}
        /\ positionAmt = last.amt_before
        /\ openOrders = last.orders_before

\* LONG requested while the position is short, with protective orders open.
C9_Witness ==
    /\ Closed /\ PositionRead
    /\ last.position_type = "LONG"
    /\ last.amt_before[last.symbol] < 0
    /\ OrphanOrders = {}
    /\ \E o \in openOrders : o.symbol = last.symbol /\ o.type \in CLOSING_ORDER_TYPES
    /\ last.res.position_found = "false"

\* The position re-read that follows the close order at call k.
IsReRead(k, j) ==
    /\ last.calls[k].c = "create_order" /\ last.calls[k].resp = "ok"
    /\ j > k
    /\ last.calls[j].c = "position_information" /\ last.calls[j].resp = "ok"

\* C10: close_position cancels protective orders only after it re-read the
\* position following the close order and found it flat; when the re-read
\* shows a non-zero position no order is cancelled and orders_cancelled = false
\* is reported.
C10_CancelOnlyWhenFlat ==
    Closed =>
        /\ \A i \in 1 .. Len(last.calls) :
              last.calls[i].c = "cancel_order" =>
                  \E k \in 1 .. i, j \in 1 .. i : IsReRead(k, j) /\ last.calls[j].ret = 0
        /\ \A k \in 1 .. Len(last.calls), j \in 1 .. Len(last.calls) :
              (IsReRead(k, j) /\ last.calls[j].ret # 0) =>
                  /\ \A i \in 1 .. Len(last.calls) : last.calls[i].c # "cancel_order"
                  /\ openOrders = last.orders_before
                  /\ last.exc = "none"
                  /\ last.res.orders_cancelled = "false"

\* A close that filled in part while the symbol had protective orders open.
C10_Witness ==
    /\ Closed
    /\ \E k \in 1 .. Len(last.calls), j \in 1 .. Len(last.calls) :
          IsReRead(k, j) /\ last.calls[j].ret # 0
    /\ \E o \in openOrders : o.symbol = last.symbol /\ o.type \in CLOSING_ORDER_TYPES
    /\ last.res.orders_cancelled = "false"

---------------------------------------------------------------------------
(* Properties: history fetching *)

FetchDone == fetch.pc = "done"
FetchReturned == FetchDone /\ fetch.exc = "none"
AllAnswered200 == \A i \in 1 .. Len(fetch.responses) : fetch.responses[i] = 200

\* A fetch of the latest n closed bars from a well-behaved exchange that
\* holds them: n closed bars and the bar in progress.
LatestClosed ==
    /\ FetchDone
    /\ fetch.closed /\ fetch.since = 0 /\ fetch.limit0 # None
    /\ market.tradable /\ market.gap = 0 /\ ~market.overlap
    /\ market.nbars >= fetch.limit0 + 1
    /\ AllAnswered200

\* C5: with closed=True, no since and limit=n, the fetch returns exactly n
\* bars whenever the exchange holds n closed bars and the bar in progress.
C5_ReturnsExactlyN ==
    LatestClosed => FetchReturned /\ Len(fetch.klines) = fetch.limit0

\* The case of C5 above the page cap: a fetch of more than max_limit bars
\* has returned.
C5_Witness ==
    LatestClosed /\ FetchReturned /\ fetch.limit0 > max_limit

\* C7: a series that get_historical_data returns holds no two bars with the
\* same open time, in either mode.
C7_NoDuplicateSeries ==
    FetchReturned => ~has_duplicate(fetch.klines)

\* The case of C7: pages were accumulated in since mode and the fetch has
\* returned.
C7_Witness ==
    FetchReturned /\ fetch.since # 0 /\ Len(fetch.requests) >= 2 /\ AllAnswered200

\* C8: a page request answered 429 is sent again with the same symbol,
\* interval, limit and start time after a sleep of retry-after + 1 seconds,
\* however many 429 answers came before; a 429 never reaches the caller; the
\* page handed back is the payload of the first 200 answer to the request
\* that was asked for; any other status raises at once and nothing is sent
\* after it.
C8_RetriesSameRequest ==
    /\ Len(fetch.responses) <= Len(fetch.requests)
    /\ Len(fetch.slept) = Count429(fetch.responses)
    /\ \A i \in 1 .. Len(fetch.responses) :
          /\ fetch.responses[i] = 429 =>
                /\ i < Len(fetch.requests)
                /\ fetch.requests[i + 1] = fetch.requests[i]
          /\ fetch.responses[i] \notin {200, 429} =>
                /\ i = Len(fetch.requests)
                /\ FetchDone /\ fetch.exc = "exc" /\ fetch.msg = "status"
    /\ (fetch.responses # <<>> /\ fetch.responses[Len(fetch.responses)] = 429) =>
          /\ fetch.pc = "waiting"
          /\ fetch.req = fetch.asked
    /\ (fetch.responses # <<>> /\ fetch.responses[Len(fetch.responses)] = 200) =>
          fetch.page = Klines(market, fetch.answered)
    /\ (FetchDone /\ fetch.msg = "status") =>
          fetch.responses[Len(fetch.responses)] \notin {200, 429}

\* The case of C8: a request with a start time was answered 429 as often as
\* the exchange does, then 200, and the fetch has returned.
C8_Witness ==
    /\ FetchReturned
    /\ Count429(fetch.responses) = MaxRetries
    /\ fetch.asked.start # 0
    /\ fetch.responses[Len(fetch.responses)] = 200
    /\ fetch.responses[Len(fetch.responses) - 1] = 429
    /\ fetch.klines # <<>>

---------------------------------------------------------------------------
(* Properties: the market order workflow *)

AllAnswered(calls) == \A i \in 1 .. Len(calls) : calls[i].resp \in {"ok", "noneed"}

\* The close order of the call, filled in full.
CloseFilled(calls) ==
    \E i \in 1 .. Len(calls) :
       /\ calls[i].c = "create_order" /\ calls[i].key = "reduceOnly"
       /\ calls[i].resp = "ok" /\ calls[i].ret = calls[i].qty

ProtectiveOrders(symbol) ==
    {o \in openOrders : o.symbol = symbol /\ o.type \in {"STOP_MARKET", "TAKE_PROFIT_MARKET"}}

\* place_market_order with both protective prices succeeded and the caller
\* went on to close_position on the same symbol and side; the exchange
\* answered the calls of the close and filled the close order in full.
EntryThenClose ==
    /\ previous.op = "place_market_order"
    /\ previous.exc = "none" /\ previous.res.success
    /\ previous.stop_loss_price /\ previous.take_profit_price
    /\ last.op = "close_position"
    /\ last.symbol = previous.symbol
    /\ entry_side(last.position_type) = entry_side(previous.position_type)
    /\ AllAnswered(last.calls)
    /\ CloseFilled(last.calls)

\* C11: after a protected market entry and a filled close on the same side,
\* the symbol has no open position and no open STOP_MARKET or
\* TAKE_PROFIT_MARKET order, and close_position reports success.
C11_ClosedAndCleared ==
    EntryThenClose =>
        /\ positionAmt[last.symbol] = 0
        /\ ProtectiveOrders(last.symbol) = {}
        /\ last.exc = "none" /\ last.res.success
        /\ last.res.orders_cancelled = "true"

\* The case of C11: the entry left a stop-loss and a take-profit order on a
\* live position and the close that followed was filled.
C11_Witness ==
    /\ EntryThenClose
    /\ last.amt_before[last.symbol] # 0
    /\ \E o \in last.orders_before : o.symbol = last.symbol /\ o.type = "STOP_MARKET"
    /\ \E o \in last.orders_before : o.symbol = last.symbol /\ o.type = "TAKE_PROFIT_MARKET"

---------------------------------------------------------------------------
(* Properties: the result envelope *)

MutatingOps ==
    {"place_market_order", "place_limit_order", "set_stop_loss_take_profit",
     "close_position", "cancel_order", "clean_orphan_orders"}

\* The exchange answered one of the calls of the operation with an error
\* (a BinanceAPIException); no call ended in a transport error.
ExchangeCallFailed ==
    /\ last.op \in MutatingOps
    /\ \E i \in 1 .. Len(last.calls) : last.calls[i].resp = "api"
    /\ \A i \in 1 .. Len(last.calls) : last.calls[i].resp # "net"

\* The call returned the envelope with success False and an error_message.
FailedEnvelope ==
    /\ last.exc = "none"
    /\ ~last.res.success
    /\ last.res.error # <<>>

\* C12: a mutating operation one of whose exchange calls failed returns the
\* result envelope with success False and an error_message; it does not raise.
C12_ReturnsEnvelope == ExchangeCallFailed => FailedEnvelope

\* The case of C12: the exchange rejected the position read of
\* close_position, or the ticker read of place_market_order.
C12_Witness ==
    /\ ExchangeCallFailed
    /\ \/ /\ last.op = "close_position"
          /\ last.calls[1].c = "position_information" /\ last.calls[1].resp = "api"
       \/ /\ last.op = "place_market_order"
          /\ last.calls[1].c = "symbol_ticker" /\ last.calls[1].resp = "api"

---------------------------------------------------------------------------
(* Properties: the two protective legs *)

AttachCalls(type) ==
    {i \in 1 .. Len(last.calls) :
        last.calls[i].c = "create_algo_order" /\ last.calls[i].type = type}

\* set_stop_loss_take_profit was given both prices and the exchange rejected
\* the stop-loss order.
StopLossLegRejected ==
    /\ last.op = "set_stop_loss_take_profit"
    /\ last.stop_loss_price /\ last.take_profit_price
    /\ \E i \in AttachCalls("STOP_MARKET") : last.calls[i].resp = "api"

\* C13: with both prices given and the stop-loss order rejected, the
\* take-profit order is still submitted, and a returned result carries a
\* boolean stop_loss_set and a boolean take_profit_set and success False.
C13_LegsIndependent ==
    StopLossLegRejected =>
        /\ AttachCalls("TAKE_PROFIT_MARKET") # {}
        /\ last.exc = "none" =>
              /\ last.res.stop_loss_set \in {"true", "false"}
              /\ last.res.take_profit_set \in {"true", "false"}
              /\ ~last.res.success

\* The case of C13: the stop-loss order was rejected and the call returned
\* its result.
C13_Witness ==
    /\ StopLossLegRejected
    /\ last.exc = "none"
    /\ ~last.res.success

---------------------------------------------------------------------------
(* Properties: a transport failure while attaching protection *)

\* The index of the protective-order submit that ended in a timeout or
\* another transport error, 0 if there is none.
TimedOutAttach ==
    IF \E i \in 1 .. Len(last.calls) :
          last.calls[i].c = "create_algo_order" /\ last.calls[i].resp = "net"
    THEN CHOOSE i \in 1 .. Len(last.calls) :
            last.calls[i].c = "create_algo_order" /\ last.calls[i].resp = "net"
    ELSE 0

\* The rollback was started after call i: close_position read the position.
RollbackStartedAfter(i) ==
    \E j \in (i + 1) .. Len(last.calls) : last.calls[j].c = "position_information"

\* C14: when a protective-order submit of place_market_order ends in a
\* transport error, the rollback is run as after a rejection: close_position
\* is called, which begins by reading the position.
C14_TimeoutRollsBack ==
    (last.op = "place_market_order" /\ TimedOutAttach # 0) =>
        RollbackStartedAfter(TimedOutAttach)

\* The case of C14: the entry was filled, the stop-loss submit timed out.
C14_Witness ==
    /\ last.op = "place_market_order"
    /\ TimedOutAttach # 0
    /\ last.calls[TimedOutAttach].type = "STOP_MARKET"
    /\ \E i \in 1 .. TimedOutAttach :
          /\ last.calls[i].c = "create_order" /\ last.calls[i].type = "MARKET"
          /\ last.calls[i].resp = "ok"
    /\ positionAmt[last.symbol] # last.amt_before[last.symbol]

---------------------------------------------------------------------------
(* Properties: the steps of place_market_order *)

\* The step of place_market_order a call belongs to: 1 price lookup,
\* 2 leverage, 3 margin mode, 4 entry order, 5 protective order; 0 for the
\* other calls (precision lookup, sleep, the calls of a rollback).
StepOf(call) ==
    IF call.c = "symbol_ticker" THEN 1
    ELSE IF call.c = "change_leverage" THEN 2
    ELSE IF call.c = "change_margin_type" THEN 3
    ELSE IF call.c = "create_order" /\ call.type = "MARKET" /\ call.key # "reduceOnly" THEN 4
    ELSE IF call.c = "create_algo_order" THEN 5
    ELSE 0

StepsIssued == {i \in 1 .. Len(last.calls) : StepOf(last.calls[i]) # 0}

\* The steps that must precede a step of rank r in this call: the margin-mode
\* call is left out for a symbol already marked.
StepsBefore(r) ==
    {q \in 1 .. (r - 1) : q # 3 \/ last.symbol \notin last.iso_before}

\* C15: in one place_market_order call the steps are issued in the order
\* price lookup, leverage, margin mode, entry order, protective orders; the
\* first four at most once and each protective order at most once; and when a
\* step is issued every call before it was answered without error and every
\* earlier step was issued.
C15_StepsInOrder ==
    last.op = "place_market_order" =>
        /\ \A i, j \in StepsIssued :
              i < j =>
                 /\ StepOf(last.calls[i]) <= StepOf(last.calls[j])
                 /\ StepOf(last.calls[i]) = StepOf(last.calls[j]) =>
                       /\ StepOf(last.calls[i]) = 5
                       /\ last.calls[i].type # last.calls[j].type
        /\ \A j \in StepsIssued :
              /\ \A i \in 1 .. (j - 1) : last.calls[i].resp \in {"ok", "noneed"}
              /\ \A q \in StepsBefore(StepOf(last.calls[j])) :
                    \E i \in 1 .. (j - 1) : StepOf(last.calls[i]) = q

\* The case of C15: all five steps were issued, with both protective orders.
C15_Witness ==
    /\ last.op = "place_market_order"
    /\ last.exc = "none" /\ last.res.success
    /\ \A q \in 1 .. 5 : \E i \in StepsIssued : StepOf(last.calls[i]) = q
    /\ Cardinality({i \in StepsIssued : StepOf(last.calls[i]) = 5}) = 2

---------------------------------------------------------------------------
(* Properties: a failed margin-mode call *)

\* The margin-mode call of the placement failed with an error other than
\* "No need to change margin type.".
MarginCallFailed ==
    /\ Placement
    /\ \E i \in 1 .. Len(last.calls) :
          IsMarginCall(last.symbol, last.calls[i]) /\ last.calls[i].resp = "api"

\* C16: when the margin-mode call of place_market_order or place_limit_order
\* fails with another error than "no change needed", no entry order is
\* submitted and nothing follows the failed call, the symbol is not marked as
\* isolated, position and open orders are as before, and the call returns a
\* failed result with the error.
C16_MarginFailureAborts ==
    MarginCallFailed =>
        /\ \A i \in 1 .. Len(last.calls) : last.calls[i].c # "create_order"
        /\ last.calls[Len(last.calls)].c = "change_margin_type"
        /\ last.symbol \notin isolated_symbols
        /\ positionAmt = last.amt_before
        /\ openOrders = last.orders_before
        /\ last.exc = "none"
        /\ ~last.res.success
        /\ last.res.error = ApiError("change_margin_type", "")

\* The case of C16: a limit placement whose margin-mode call was rejected on
\* an account where the order would otherwise have been accepted.
C16_Witness ==
    /\ MarginCallFailed
    /\ last.op = "place_limit_order"
    /\ CanOpen(World, [symbol |-> last.symbol, kind |-> "normal", type |-> "LIMIT"])

---------------------------------------------------------------------------
(* Properties: truncation *)

\* a <= b for two numbers c * 10^e
DecLeq(a, b) ==
    IF a.e >= b.e THEN a.c <= DropDigits(b.c, a.e - b.e)
    ELSE a.c = 0 \/ ~(b.c <= DropDigits(a.c - 1, b.e - a.e))

\* The string is written without an exponent and has exactly p digits after
\* the point (no point at all for p = 0).
HasFractionDigits(s, p) ==
    /\ Find(s, {"e", "E"}) = 0
    /\ IF p = 0 THEN Find(s, {"."}) = 0
       ELSE Find(s, {"."}) # 0 /\ Len(s) - Find(s, {"."}) = p
    /\ \A i \in 1 .. Len(s) :
          s[i] = "." \/ \E d \in 1 .. 10 : DigitChars[d] = s[i]

Truncated == sizing.op = "_truncate_to_precision"

\* C17: for a value v >= 0 and a precision p >= 0 the string returned by
\* _truncate_to_precision(v, p) reads as the largest multiple of 10^-p that
\* is <= v, and it is written with exactly p fractional digits.
C17_TruncatesToPDigits ==
    Truncated =>
        LET v == Dec(sizing.value.c, sizing.value.e)
            p == sizing.precision
            r == Decimal(sizing.out)
        IN  /\ r.e >= -p \/ r.c % Pow10(-p - r.e) = 0
            /\ DecLeq(r, v)
            /\ ~DecLeq(Dec(Stripped(r).c * Pow10(Stripped(r).e + p) + 1, -p), v)
            /\ HasFractionDigits(sizing.out, p)

\* The case of C17: the two examples, 0.123456 cut to 3 digits gives "0.123"
\* and 10 cut to 0 digits gives "10".
C17_Witness ==
    /\ Truncated
    /\ \/ /\ sizing.value = FloatValue(123456, -6) /\ sizing.precision = 3
          /\ sizing.out = <<"0", ".", "1", "2", "3">>
       \/ /\ sizing.value = IntValue(10) /\ sizing.precision = 0
          /\ sizing.out = <<"1", "0">>

---------------------------------------------------------------------------
(* Properties: the quantity of an entry order *)

Sized == sizing.op \in PlacementMethods

\* The number of fractional digits of a step written in plain notation, its
\* trailing zeros not counted.
StepFractionDigits(step) ==
    LET dot == Find(step, {"."})
        nonzero == {i \in (dot + 1) .. Len(step) : step[i] # "0"}
    IN  IF dot = 0 \/ nonzero = {} THEN 0
        ELSE (CHOOSE i \in nonzero : \A j \in nonzero : j <= i) - dot

\* The string reads as the largest multiple of 10^-p that is <= v.
IsTruncationOf(s, v, p) ==
    LET r == Decimal(s) IN
    /\ r.e >= -p \/ r.c % Pow10(-p - r.e) = 0
    /\ DecLeq(r, v)
    /\ ~DecLeq(Dec(Stripped(r).c * Pow10(Stripped(r).e + p) + 1, -p), v)

\* C18: the quantity passed to the entry order of place_market_order and of
\* place_limit_order is the computed amount / price cut to the number of
\* fractional digits of the symbol's stepSize (not of its tickSize), and the
\* same string is reported as details.quantity.
C18_QuantityCutToStep ==
    Sized =>
        /\ sizing.quantity = float_div(sizing.amount, sizing.price)
        /\ IsTruncationOf(sizing.order_quantity,
                          Dec(sizing.quantity.c, sizing.quantity.e),
                          StepFractionDigits(sizing.stepSize))
        /\ sizing.order_quantity = sizing.details_quantity

\* The case of C18: step "0.001" and a coarser tick, computed quantity
\* 1.23456, submitted quantity "1.234".
C18_Witness ==
    /\ Sized
    /\ sizing.stepSize = <<"0", ".", "0", "0", "1">>
    /\ sizing.tickSize = <<"0", ".", "1", "0">>
    /\ sizing.quantity = FloatValue(123456, -5)
    /\ sizing.order_quantity = <<"1", ".", "2", "3", "4">>

---------------------------------------------------------------------------
(* Properties: insufficient history *)

\* A fetch by count (a limit and no since) has ended.
CountFetchDone == FetchDone /\ fetch.since = 0 /\ fetch.limit0 # None

\* C19: a fetch by count never returns fewer bars than the count asked for,
\* and it ends with an error whenever the exchange holds fewer bars than
\* that, be it that a page came back empty or that the pages together fall
\* short.
C19_NeverShort ==
    CountFetchDone =>
        /\ fetch.exc = "none" => Len(fetch.klines) >= fetch.limit0
        /\ CountFrom(market, 1) < fetch.limit0 => fetch.exc # "none"

\* The case of C19: every page request was answered 200, the pages hold
\* fewer bars than asked for, and the fetch raised for insufficient data.
C19_Witness ==
    /\ CountFetchDone
    /\ AllAnswered200
    /\ fetch.all_klines # <<>>
    /\ Len(fetch.all_klines) < fetch.limit0
    /\ CountFrom(market, 1) < fetch.limit0
    /\ fetch.exc = "exc" /\ fetch.msg = "insufficient"

\* The other case of C19: the first page came back empty.
EmptyPageInsufficient ==
    /\ CountFetchDone
    /\ AllAnswered200
    /\ fetch.page = <<>> /\ fetch.all_klines = <<>>
    /\ fetch.exc = "exc" /\ fetch.msg = "insufficient"

---------------------------------------------------------------------------
(* Properties: adjusting the stop-loss *)

StopLossOrders(orders, symbol) ==
    {o \in orders : o.symbol = symbol /\ o.type = "STOP_MARKET"}

\* adjust_stop_loss ran for a symbol with a live position and the exchange
\* answered every call it received.
AdjustedLivePosition ==
    /\ last.op = "adjust_stop_loss"
    /\ last.amt_before[last.symbol] # 0
    /\ AllAnswered(last.calls)

\* The stop-loss submit, 0 if there was none.
StopLossSubmit ==
    IF \E i \in 1 .. Len(last.calls) :
          last.calls[i].c = "create_algo_order" /\ last.calls[i].type = "STOP_MARKET"
    THEN CHOOSE i \in 1 .. Len(last.calls) :
            last.calls[i].c = "create_algo_order" /\ last.calls[i].type = "STOP_MARKET"
    ELSE 0

\* C20: adjust_stop_loss on a symbol with a live position completes; every
\* stop-loss order that was open is cancelled, before the new one is
\* submitted, and exactly one stop-loss order, the new one, is open after it.
C20_StopLossReplaced ==
    AdjustedLivePosition =>
        /\ last.exc = "none"
        /\ StopLossSubmit # 0
        /\ \A o \in StopLossOrders(last.orders_before, last.symbol) :
              \E i \in 1 .. (StopLossSubmit - 1) :
                 /\ last.calls[i].c = "cancel_order"
                 /\ last.calls[i].type = "STOP_MARKET"
                 /\ last.calls[i].key = (IF o.kind = "algo" THEN "algoId" ELSE "orderId")
        /\ Cardinality(StopLossOrders(openOrders, last.symbol)) = 1

\* The case of C20: a live position with an open stop-loss order; the old
\* order was cancelled.
C20_Witness ==
    /\ AdjustedLivePosition
    /\ StopLossOrders(last.orders_before, last.symbol) # {}
    /\ \E i \in 1 .. Len(last.calls) :
          last.calls[i].c = "cancel_order" /\ last.calls[i].type = "STOP_MARKET"
    /\ StopLossOrders(openOrders, last.symbol) = {}

---------------------------------------------------------------------------
(* Properties: adjusting the stop-loss of a flat symbol *)

\* adjust_stop_loss ran for a symbol without a position and the exchange
\* answered the position read.
AdjustedFlatSymbol ==
    /\ last.op = "adjust_stop_loss"
    /\ last.amt_before[last.symbol] = 0
    /\ last.calls # <<>>
    /\ last.calls[1].c = "position_information" /\ last.calls[1].resp = "ok"

\* C21: adjust_stop_loss on a symbol with no position raises the
\* position-not-found error right after the position read: no order is
\* cancelled or submitted and the open orders are as before.
C21_NoPositionNoChange ==
    AdjustedFlatSymbol =>
        /\ last.exc = "value"
        /\ \A i \in 1 .. Len(last.calls) :
              last.calls[i].c \notin {"cancel_order", "create_algo_order", "create_order"}
        /\ openOrders = last.orders_before

\* The case of C21: a flat symbol with an open stop-loss order; the call
\* raised the position-not-found error.
C21_Witness ==
    /\ AdjustedFlatSymbol
    /\ StopLossOrders(last.orders_before, last.symbol) # {}
    /\ last.exc = "value"

---------------------------------------------------------------------------
(* C22: the reconciliation pass of the trade manager *)

\* The records of the file whose symbol holds a position.
LiveRecords(file, amt) ==
    {i \in 1 .. Len(file.items) : amt[file.items[i].symbol] # 0}

\* The pass has run over a record file and every request was answered.
CheckedRecords ==
    /\ last.op = "check_limit_status"
    /\ last.file_before.exists
    /\ AllAnswered(last.calls)

\* The protective orders the record rec asks for were submitted.
Attached(calls, rec) ==
    /\ rec.stop_loss_price =>
          \E i \in 1 .. Len(calls) :
             /\ calls[i].c = "create_algo_order" /\ calls[i].symbol = rec.symbol
             /\ calls[i].type = "STOP_MARKET"
    /\ rec.take_profit_price =>
          \E i \in 1 .. Len(calls) :
             /\ calls[i].c = "create_algo_order" /\ calls[i].symbol = rec.symbol
             /\ calls[i].type = "TAKE_PROFIT_MARKET"

\* C22: after record_limit_sltp, a check_limit_status pass attaches the
\* recorded stop-loss and take-profit for every recorded symbol that holds a
\* position and removes that symbol's record; the records of the symbols
\* without a position are kept unchanged.
C22_PassAttachesAndRemoves ==
    CheckedRecords =>
        LET before == last.file_before.items
            live == LiveRecords(last.file_before, last.amt_before)
        IN  /\ \A i \in live : Attached(last.calls, before[i])
            /\ limit_sltp_rec.items =
                  SelectSeq(before, LAMBDA r : last.amt_before[r.symbol] = 0)

\* A recorded symbol holds a position, the pass has run with every request
\* answered, and the record is still in the file.
C22_Witness ==
    /\ CheckedRecords
    /\ LiveRecords(last.file_before, last.amt_before) # {}
    /\ limit_sltp_rec = last.file_before
    /\ last.exc = "type"

---------------------------------------------------------------------------
(* Properties: limit orders *)

PlacedLimit == last.op = "place_limit_order"

\* The order submits of a call: entry orders and protective orders.
OrderSubmits(calls) ==
    {i \in 1 .. Len(calls) : calls[i].c \in {"create_order", "create_algo_order"}}

\* The resting order a limit placement on symbol opens.
LimitOrderOf(symbol) == [symbol |-> symbol, kind |-> "normal", type |-> "LIMIT"]

SizedLimit == sizing.op = "place_limit_order"

\* The price of the limit order is the price given, cut to the fractional
\* digits of the symbol's tickSize, and the same string is reported as
\* details.price.
LimitPriceCutToTick ==
    SizedLimit =>
        /\ IsTruncationOf(sizing.order_price, Dec(sizing.price.c, sizing.price.e),
                          StepFractionDigits(sizing.tickSize))
        /\ sizing.order_price = sizing.details_price

---------------------------------------------------------------------------
(* Properties: cancellation *)

\* cancel_order has returned success.
Cancelled == last.op = "cancel_order" /\ last.res.success

\* The order is one cancel_order(symbol, type) is asked to cancel; the type
\* of the call is kept in last.position_type, "None" when it is omitted.
AskedToCancel(order) ==
    /\ order.symbol = last.symbol
    /\ last.position_type = "None" \/ order.type = last.position_type

\* C24: after cancel_order(symbol, type) returns success, no open order of
\* that type remains for the symbol (no open order of the symbol at all
\* when type is omitted), the orders of other types and of other symbols are
\* as before, and cancelled_count is the number of orders that matched.
C24_CancelsAllOfType ==
    Cancelled =>
        /\ openOrders = {o \in last.orders_before : ~AskedToCancel(o)}
        /\ last.res.cancelled_count =
              Cardinality({o \in last.orders_before : AskedToCancel(o)})

\* The case of C24: the stop-loss order of a symbol is cancelled while the
\* symbol has another open order and the other symbol has one too.
C24_Witness ==
    /\ Cancelled
    /\ last.position_type = "STOP_MARKET"
    /\ last.res.cancelled_count = 1
    /\ \E o \in openOrders : o.symbol = last.symbol
    /\ \E o \in openOrders : o.symbol # last.symbol

---------------------------------------------------------------------------
(* Properties: the margin-mode cache under concurrent placements *)

\* Both threads place on symbol, which was not marked when they started,
\* and no margin-type call was rejected.
ConcurrentlyPlacing(symbol) ==
    /\ \A t \in Threads : placing[t].symbol = symbol
    /\ marginAccepted[symbol] = marginCalls[symbol]

\* C25: when two placements for the same symbol, not yet set to isolated
\* margin, run concurrently on one client, at most one margin-type call is
\* issued for the symbol.
C25_OneMarginCall ==
    \A symbol \in Symbols : ConcurrentlyPlacing(symbol) => marginCalls[symbol] <= 1

\* Both placements have tested the cache before either had marked the
\* symbol; both have issued the call, slept and are about to submit their
\* orders.
C25_Witness ==
    \E symbol \in Symbols :
       /\ ConcurrentlyPlacing(symbol)
       /\ \A t \in Threads : placing[t].pc = "submit" /\ placing[t].resp # "none"
       /\ marginCalls[symbol] = 2

---------------------------------------------------------------------------
(* Properties: the precision of a symbol *)

\* The exchange-metadata requests of a call.
InfoRequests(calls) == {i \in 1 .. Len(calls) : calls[i].c = "exchange_info"}

\* The operation runs on a symbol whose precision the client has derived
\* before in this session: the symbol is marked isolated, which a placement
\* does after its precision lookup has succeeded.
DerivedBefore ==
    /\ last.op \in {"place_market_order", "place_limit_order", "close_position",
                    "set_stop_loss_take_profit"}
    /\ last.symbol \in last.iso_before

\* C26 (as claimed): once the precision of a symbol has been derived, later
\* placements, closes and protection attachments for the symbol issue no
\* further exchange-metadata request.
C26_DerivedOnce ==
    DerivedBefore => InfoRequests(last.calls) = {}

\* C26 (amended): the precision is derived anew in every operation: a limit
\* placement and a protection attachment begin with an exchange-metadata
\* request, a market placement issues one right after the price read, and
\* every order an operation submits follows an answered exchange-metadata
\* request of that same operation.
C26_DerivedPerOperation ==
    /\ last.op \in {"place_limit_order", "set_stop_loss_take_profit"} =>
          1 \in InfoRequests(last.calls)
    /\ last.op = "place_market_order" /\ last.calls[1].resp = "ok" =>
          2 \in InfoRequests(last.calls)
    /\ last.op \in MutatingOps =>
          \A i \in OrderSubmits(last.calls) :
             \E j \in InfoRequests(last.calls) : j < i /\ last.calls[j].resp = "ok"

\* The case of C26: a limit order placed on a symbol the client has set up
\* before; the placement asks for the exchange metadata again.
C26_Witness ==
    /\ DerivedBefore
    /\ last.op = "place_limit_order" /\ last.res.success
    /\ InfoRequests(last.calls) = {1}

---------------------------------------------------------------------------
(* Properties: the cooldown after a margin-mode call *)

\* The margin-mode calls of the last operation that the exchange accepted.
MarginChanged ==
    {i \in 1 .. Len(last.calls) :
        IsMarginCall(last.symbol, last.calls[i]) /\ last.calls[i].resp = "ok"}

\* C27: in a placement, an accepted margin-mode call is followed at once by
\* the 7 s wait, and the entry order is submitted only after that wait; a
\* placement on a symbol already marked issues no margin-mode call and does
\* not wait.
C27_CooldownAfterChange ==
    Placement =>
        /\ \A i \in MarginChanged :
              /\ i < Len(last.calls)
              /\ last.calls[i + 1].c = "sleep" /\ last.calls[i + 1].qty = 7
              /\ \A j \in OrderSubmits(last.calls) : j > i + 1
        /\ last.symbol \in last.iso_before =>
              /\ MarginCallsIn(last.calls, last.symbol) = 0
              /\ SleepsIn(last.calls) = 0

\* The case of C27: the margin mode was changed, the client waited and then
\* submitted the entry order, which the exchange accepted.
C27_Witness ==
    /\ Placement
    /\ MarginChanged # {}
    /\ \E i \in MarginChanged :
          /\ last.calls[i + 1].c = "sleep"
          /\ last.calls[i + 2].c = "create_order" /\ last.calls[i + 2].resp = "ok"

---------------------------------------------------------------------------
(* Properties: details.position_found *)

\* close_position has returned a result.
CloseReturned == last.op = "close_position" /\ last.exc = "none"

\* A close order was submitted by the call.
CloseSubmitted ==
    \E i \in 1 .. Len(last.calls) :
       last.calls[i].c = "create_order" /\ last.calls[i].key = "reduceOnly"

\* C28: every result close_position returns carries details.position_found:
\* true exactly when a matching position was found and a close order was
\* submitted, false when there was nothing to close.
C28_PositionFoundReported ==
    CloseReturned =>
        /\ last.res.position_found \in {"true", "false"}
        /\ last.res.position_found = "true" <=> CloseSubmitted

\* A position was found, the close order was accepted and filled and the
\* call returned success; the result has no position_found.
C28_Witness ==
    /\ CloseReturned
    /\ last.res.success
    /\ CloseFilled(last.calls)
    /\ last.res.position_found = "unset"

---------------------------------------------------------------------------
(* Properties: the tradability check *)

\* C29: get_historical_data sends no kline page request for a symbol that
\* is not a perpetual contract in status TRADING: the check comes first, and
\* the fetch then ends with an exception.
C29_NoFetchUnlessTradable ==
    ~market.tradable =>
        /\ fetch.requests = <<>>
        /\ fetch.pc # "waiting"
        /\ FetchDone => fetch.exc = "exc" /\ fetch.msg = "not_perpetual"

\* The case of C29: a fetch for a symbol that is not trading, on an exchange
\* that holds bars of it, has ended.
C29_Witness ==
    /\ FetchDone
    /\ ~market.tradable
    /\ market.nbars > 0
    /\ fetch.exc = "exc" /\ fetch.requests = <<>>

---------------------------------------------------------------------------
(* Properties: paging forward from since *)

SinceFetch == fetch.pc # "idle" /\ fetch.since # 0

\* The open times of the series rise strictly.
StrictlyIncreasing(klines) ==
    \A i \in 1 .. (Len(klines) - 1) : open_time(klines[i]) < open_time(klines[i + 1])

---------------------------------------------------------------------------
(* Properties: termination of a fetch *)

\* The page requests of the fetch that were answered 200.
Count200(responses) == Len(SelectSeq(responses, LAMBDA s : s = 200))

\* A fetch by count is running or has ended: fetch.limit is the number of
\* bars it set out to fetch.
CountFetch == fetch.pc # "idle" /\ fetch.since = 0 /\ fetch.limit # None

\* ceil(n / max_limit)
PagesFor(n) == (n + max_limit - 1) \div max_limit

\* A fetch by count has had at most ceil(L / max_limit) pages answered 200.
PagesBounded == CountFetch => Count200(fetch.responses) <= PagesFor(fetch.limit)

\* C31: the exchange answering every page request and with 429 only
\* finitely often, a fetch that was started ends, with the series or with
\* an exception; a fetch by count has at most ceil(L / 1000) page requests
\* answered 200, L being the number of bars it set out to fetch.
C31_FetchTerminates ==
    /\ []PagesBounded
    /\ (fetch.pc = "waiting") ~> FetchDone

\* The case of C31: a fetch by count of more than a page of bars was
\* answered 429 as often as the exchange does and has ended after two page
\* requests answered 200.
C31_Witness ==
    /\ CountFetch /\ FetchDone
    /\ Count429(fetch.responses) = MaxRetries
    /\ fetch.limit > max_limit
    /\ Count200(fetch.responses) = PagesFor(fetch.limit)

---------------------------------------------------------------------------
(* Properties: what a successful place_market_order stands for *)

\* The last operation had a call c of the given order type accepted.
Accepted(c, type) ==
    \E i \in 1 .. Len(last.calls) :
        /\ last.calls[i].c = c /\ last.calls[i].type = type
        /\ last.calls[i].key # "reduceOnly"
        /\ last.calls[i].resp = "ok"

\* The algo order of the given type is open on the symbol of the last
\* operation.
ProtectedBy(type) ==
    [symbol |-> last.symbol, kind |-> "algo", type |-> type] \in openOrders

PlacedWithSuccess == Placed /\ last.exc = "none" /\ last.res.success

\* C32: when place_market_order returns success = True, its MARKET entry
\* order was accepted, and for each of stop_loss_price and take_profit_price
\* that was given the algo order of that leg was accepted and is open on the
\* symbol; no rollback order was submitted.
C32_SuccessMeansProtected ==
    PlacedWithSuccess =>
        /\ Accepted("create_order", "MARKET")
        /\ last.stop_loss_price =>
              Accepted("create_algo_order", "STOP_MARKET") /\ ProtectedBy("STOP_MARKET")
        /\ last.take_profit_price =>
              Accepted("create_algo_order", "TAKE_PROFIT_MARKET")
              /\ ProtectedBy("TAKE_PROFIT_MARKET")
        /\ \A i \in 1 .. Len(last.calls) : last.calls[i].key # "reduceOnly"

\* The case of C32: a success with both legs asked for and attached.
C32_Witness ==
    /\ PlacedWithSuccess
    /\ last.stop_loss_price /\ last.take_profit_price
    /\ Accepted("create_order", "MARKET")
    /\ ProtectedBy("STOP_MARKET") /\ ProtectedBy("TAKE_PROFIT_MARKET")
    /\ positionAmt[last.symbol] # last.amt_before[last.symbol]

---------------------------------------------------------------------------
(* Properties: the parameters of a protective order *)

Protected == sizing.op = "set_stop_loss_take_profit"

\* The price argument the leg of the given type was made from.
PriceOf(type) ==
    IF type = "STOP_MARKET" THEN sizing.stop_loss_price ELSE sizing.take_profit_price

\* C33: every order set_stop_loss_take_profit submits, stop-loss and
\* take-profit alike, is a SELL for a BUY/LONG position and a BUY for a
\* SELL/SHORT position, has as trigger price the largest multiple of
\* 10^-d not above the price given (d the fractional digits of the symbol's
\* tickSize), closes the position (closePosition) and is triggered on the
\* mark price.
C33_ProtectiveOrderShape ==
    Protected =>
        \A i \in 1 .. Len(sizing.orders) :
            LET order == sizing.orders[i]
                price == PriceOf(order.type)
            IN  /\ sizing.side \in {"BUY", "LONG", "long"} => order.side = "SELL"
                /\ sizing.side \in {"SELL", "SHORT", "short"} => order.side = "BUY"
                /\ IsTruncationOf(order.triggerPrice, Dec(price.c, price.e),
                                  StepFractionDigits(sizing.tickSize))
                /\ order.closePosition
                /\ order.workingType = "MARK_PRICE"

\* The case of C33: both legs for a LONG position, tick "0.10", the
\* stop-loss price 1.23456 submitted as "1.2", both orders SELL.
C33_Witness ==
    /\ Protected
    /\ sizing.side = "LONG"
    /\ sizing.tickSize = <<"0", ".", "1", "0">>
    /\ sizing.stop_loss_price = FloatValue(123456, -5)
    /\ Len(sizing.orders) = 2
    /\ sizing.orders[1].type = "STOP_MARKET"
    /\ sizing.orders[1].triggerPrice = <<"1", ".", "2">>
    /\ sizing.orders[2].type = "TAKE_PROFIT_MARKET"
    /\ \A i \in 1 .. 2 : sizing.orders[i].side = "SELL"

---------------------------------------------------------------------------
(* Properties: the order close_position submits *)

CloseSized == sizing.op = "close_position"

\* The order submits of the last operation.
Submits == {i \in 1 .. Len(last.calls) : last.calls[i].c = "create_order"}

\* close_position read a position that matches the side asked for, and the
\* precision lookup that follows was answered.
MatchingPositionFound ==
    /\ Closed /\ PositionRead /\ ~NothingToClose
    /\ \E i \in 1 .. Len(last.calls) :
          last.calls[i].c = "exchange_info" /\ last.calls[i].resp = "ok"

\* C34: when close_position finds a matching position it submits exactly one
\* order, a reduce-only MARKET order, SELL for a positive amount and BUY for
\* a negative one, for the absolute amount cut to the symbol's quantity
\* precision (the largest multiple of 10^-d not above it, d the fractional
\* digits of stepSize); the position is read again only after that order, and
\* is read again whenever the order was accepted.
C34_OneReduceOnlyClose ==
    /\ MatchingPositionFound =>
          /\ Cardinality(Submits) = 1
          /\ \A k \in Submits :
                /\ last.calls[k].type = "MARKET"
                /\ last.calls[k].key = "reduceOnly"
                /\ last.calls[k].side =
                      (IF last.amt_before[last.symbol] > 0 THEN "SELL" ELSE "BUY")
                /\ last.calls[k].qty = Abs(last.amt_before[last.symbol])
                /\ \A j \in 2 .. Len(last.calls) :
                      last.calls[j].c = "position_information" => j > k
                /\ last.calls[k].resp = "ok" =>
                      \E j \in (k + 1) .. Len(last.calls) :
                          last.calls[j].c = "position_information"
    /\ CloseSized =>
          /\ sizing.order.type = "MARKET"
          /\ sizing.order.reduceOnly
          /\ sizing.order.side = (IF sizing.negative THEN "BUY" ELSE "SELL")
          /\ IsTruncationOf(sizing.order.quantity, Dec(sizing.amt.c, sizing.amt.e),
                            StepFractionDigits(sizing.stepSize))

\* The case of C34: a short position of one lot closed with no side given: one
\* BUY order for it, then the re-read.
C34_Witness ==
    /\ MatchingPositionFound
    /\ last.position_type = "None"
    /\ last.amt_before[last.symbol] = -1
    /\ \E k \in Submits :
          /\ last.calls[k].side = "BUY" /\ last.calls[k].qty = 1
          /\ last.calls[k].resp = "ok"
          /\ \E j \in (k + 1) .. Len(last.calls) : IsReRead(k, j)

\* The sizing of that order: an amount of -1.999 with step "0.10" is closed
\* with a BUY of "1.9".
CloseOrderSized ==
    /\ CloseSized
    /\ sizing.negative /\ sizing.amt = FloatValue(1999, -3)
    /\ sizing.stepSize = <<"0", ".", "1", "0">>
    /\ sizing.order.side = "BUY"
    /\ sizing.order.quantity = <<"1", ".", "9">>

---------------------------------------------------------------------------
(* Properties: close_position without a side *)

\* close_position was called with no side, or with a value that names none,
\* and read a position that is not flat.
ClosedWithoutSide ==
    /\ Closed /\ PositionRead
    /\ last.position_type \notin {"LONG", "BUY", "SHORT", "SELL"}
    /\ last.amt_before[last.symbol] # 0

\* The close order of the last operation was accepted and filled in full.
ClosedInFull ==
    \E k \in 1 .. Len(last.calls) :
        /\ last.calls[k].c = "create_order" /\ last.calls[k].key = "reduceOnly"
        /\ last.calls[k].resp = "ok"
        /\ last.calls[k].ret = last.calls[k].qty

\* C35: close_position called without a side (or with a value other than
\* LONG/BUY/SHORT/SELL) does not pass over a position, long or short: it
\* never answers position_found = false for it, it goes on to the precision
\* lookup and, that answered, submits the close order for the whole amount;
\* when that order is filled in full the symbol is flat.
C35_NoSideClosesAny ==
    ClosedWithoutSide =>
        /\ ~(last.exc = "none" /\ last.res.position_found = "false")
        /\ Len(last.calls) >= 2 /\ last.calls[2].c = "exchange_info"
        /\ last.calls[2].resp = "ok" =>
              /\ Len(last.calls) >= 3
              /\ last.calls[3].c = "create_order"
              /\ last.calls[3].key = "reduceOnly"
              /\ last.calls[3].qty = Abs(last.amt_before[last.symbol])
              /\ Sign(last.calls[3].side) * last.amt_before[last.symbol] < 0
        /\ ClosedInFull => positionAmt[last.symbol] = 0

\* The case of C35: a short position closed by a call without a side, the
\* result a success with the protective orders cancelled.
C35_Witness ==
    /\ ClosedWithoutSide
    /\ last.position_type = "None"
    /\ last.amt_before[last.symbol] < 0
    /\ ClosedInFull
    /\ positionAmt[last.symbol] = 0
    /\ last.exc = "none" /\ last.res.success
    /\ last.res.orders_cancelled = "true"

\* The same for a long position.
LongClosedWithoutSide ==
    /\ ClosedWithoutSide
    /\ last.position_type = "None"
    /\ last.amt_before[last.symbol] > 0
    /\ ClosedInFull
    /\ positionAmt[last.symbol] = 0

---------------------------------------------------------------------------
(* Properties: a batch of symbols *)

BatchReturned == batch.pc = "returned"

\* The calls of the batch for the symbol, the last of them, and whether it
\* returned enough distinct bars.
RequestsFor(symbol) ==
    {r \in 1 .. Len(batch.requests) : batch.requests[r].symbol = symbol}

Delivered(r) ==
    /\ batch.requests[r].exc = "none"
    /\ batch.requests[r].distinct >= batch.requests[r].limit

\* Every one of the five timeframes of the symbol was fetched, each with as
\* many distinct bars as asked for.
FullyFetched(symbol) ==
    \A k \in 1 .. Len(Timeframes) :
        \E r \in RequestsFor(symbol) :
            batch.requests[r].interval = Timeframes[k] /\ Delivered(r)

\* A fetch for the symbol failed.
FailedSymbol(symbol) == \E r \in RequestsFor(symbol) : ~Delivered(r)

ListedSymbols == {batch.symbols[i] : i \in 1 .. Len(batch.symbols)}

\* C36: when fetch_data_symbols returns, every symbol of the list was
\* fetched for (at least its first timeframe was asked for), whatever
\* happened to the symbols before it; the returned map holds exactly the
\* symbols whose five timeframes were all fetched, each with its five
\* timeframes; and with an exclusion record every failed symbol was passed
\* to add_problematic_coin once and no other symbol was, without one none.
C36_BatchSurvivesFailure ==
    BatchReturned =>
        /\ \A s \in ListedSymbols :
              \E r \in RequestsFor(s) : batch.requests[r].interval = Timeframes[1]
        /\ DOMAIN batch.all_data = {s \in ListedSymbols : FullyFetched(s)}
        /\ \A s \in DOMAIN batch.all_data :
              batch.all_data[s] = {Timeframes[k] : k \in 1 .. Len(Timeframes)}
        /\ \A s \in ListedSymbols :
              Len(SelectSeq(batch.problematic, LAMBDA x : x = s)) =
                 (IF batch.exclusion_coins /\ FailedSymbol(s) THEN 1 ELSE 0)

\* The case of C36: the first symbol of two fails at its third timeframe,
\* the second is fetched in full and is the only one in the map, the first
\* is in the exclusion record.
C36_Witness ==
    /\ BatchReturned
    /\ Len(batch.symbols) = 2
    /\ batch.exclusion_coins
    /\ FailedSymbol(batch.symbols[1])
    /\ Cardinality(RequestsFor(batch.symbols[1])) = 3
    /\ FullyFetched(batch.symbols[2])
    /\ DOMAIN batch.all_data = {batch.symbols[2]}
    /\ batch.problematic = <<batch.symbols[1]>>

---------------------------------------------------------------------------
(* Properties: the stop-loss order of a rolled-back entry *)

Protecting == last.op \in {"place_market_order", "set_stop_loss_take_profit"}

\* The stop-loss order was attached at call s and the take-profit order was
\* rejected at call t.
StopLossThenRejected(s, t) ==
    /\ s \in AttachCalls("STOP_MARKET") /\ last.calls[s].resp = "ok"
    /\ t \in AttachCalls("TAKE_PROFIT_MARKET") /\ last.calls[t].resp = "api"
    /\ s < t

\* The rollback after call t closed the position: its calls were answered
\* and its close order was accepted and filled in full.
RolledBackToFlat(t) ==
    /\ RollbackAnswered(t)
    /\ \E k \in (t + 1) .. Len(last.calls) :
          /\ last.calls[k].c = "create_order" /\ last.calls[k].key = "reduceOnly"
          /\ last.calls[k].resp = "ok"

\* C37: when the stop-loss order was attached, the take-profit order was then
\* rejected and the rollback close left the symbol flat, the rollback
\* cancelled the stop-loss order (an accepted cancel call for it follows the
\* re-read of the position), and no STOP_MARKET or TAKE_PROFIT_MARKET order
\* of the symbol is open when the operation ends.
C37_RollbackCancelsStopLoss ==
    \A s, t \in 1 .. Len(last.calls) :
        (Protecting /\ StopLossThenRejected(s, t) /\ RolledBackToFlat(t)) =>
            /\ positionAmt[last.symbol] = 0
            /\ \E k \in (t + 1) .. Len(last.calls), j \in (t + 1) .. Len(last.calls) :
                  /\ IsReRead(k, j) /\ last.calls[j].ret = 0
                  /\ \E c \in (j + 1) .. Len(last.calls) :
                        /\ last.calls[c].c = "cancel_order"
                        /\ last.calls[c].type = "STOP_MARKET"
                        /\ last.calls[c].key = "algoId"
                        /\ last.calls[c].resp = "ok"
            /\ ProtectiveOrders(last.symbol) = {}

\* The case of C37: a market entry on a flat symbol without open orders, the
\* stop-loss attached, the take-profit rejected, the position closed again.
C37_Witness ==
    /\ last.op = "place_market_order"
    /\ last.amt_before[last.symbol] = 0
    /\ last.orders_before = {}
    /\ \E s, t \in 1 .. Len(last.calls) :
          StopLossThenRejected(s, t) /\ RolledBackToFlat(t)
    /\ positionAmt[last.symbol] = 0
    /\ openOrders = {}

---------------------------------------------------------------------------
(* Properties: what the rollback closes *)

\* The quantity the entry order of the last place_market_order was filled
\* with, 0 if it was not accepted.
EntryFilled ==
    IF \E e \in 1 .. Len(last.calls) : StepOf(last.calls[e]) = 4 /\ last.calls[e].resp = "ok"
    THEN last.calls[CHOOSE e \in 1 .. Len(last.calls) :
                       StepOf(last.calls[e]) = 4 /\ last.calls[e].resp = "ok"].ret
    ELSE 0

\* The position of the symbol once the entry was filled.
LivePosition ==
    last.amt_before[last.symbol] + Sign(entry_side(last.position_type)) * EntryFilled

\* The close order submitted by the rollback that follows the rejection at i.
RollbackCloseAt(i, k) ==
    /\ RejectedAt(i) /\ k > i /\ k <= Len(last.calls)
    /\ last.calls[k].c = "create_order" /\ last.calls[k].key = "reduceOnly"

\* C38: the close order of the rollback after a rejected protective order is
\* for the whole position of the symbol, what was held before the entry
\* included, not for the quantity of the entry; when the exchange answers the
\* calls of the rollback and fills that order in full the symbol is flat.
C38_RollbackClosesWhole ==
    \A i, k \in 1 .. Len(last.calls) :
        (Placed /\ RollbackCloseAt(i, k)) =>
            /\ last.calls[k].qty = Abs(LivePosition)
            /\ Sign(last.calls[k].side) * LivePosition < 0
            /\ RollbackAnswered(i) => positionAmt[last.symbol] = 0

\* The case of C38: the account was long before a LONG entry; the rollback
\* sold more than the entry had bought and the symbol is flat.
C38_Witness ==
    /\ Placed
    /\ last.position_type = "LONG"
    /\ last.amt_before[last.symbol] > 0
    /\ \E i, k \in 1 .. Len(last.calls) :
          /\ RollbackCloseAt(i, k) /\ RollbackAnswered(i)
          /\ last.calls[k].qty = last.amt_before[last.symbol] + EntryFilled
          /\ last.calls[k].qty > EntryFilled
    /\ positionAmt[last.symbol] = 0

---------------------------------------------------------------------------
(* Properties: a zero-amount entry in the sweep *)

\* The symbols whose position entry the exchange lists with amount zero and
\* that had a protective order open before the sweep.
FlatListedSymbols ==
    {s \in Symbols :
        /\ listsZero /\ last.amt_before[s] = 0
        /\ \E o \in last.orders_before : o.symbol = s /\ o.type \in CLOSING_ORDER_TYPES}

\* C39 (as claimed): a successful clean_orphan_orders takes a symbol whose
\* position entry has amount zero for a symbol without position, as
\* close_position does (no_position), and cancels its protective orders.
C39_ZeroEntryIsFlat ==
    (Swept /\ last.res.success) =>
        \A s \in FlatListedSymbols :
            /\ no_position_entry(<<last.amt_before[s]>>) = no_position(<<last.amt_before[s]>>)
            /\ \A o \in last.orders_before :
                  (o.symbol = s /\ o.type \in CLOSING_ORDER_TYPES) => o \in CancelledOrders

\* The case of C39: the sweep read the zero-amount entry of a symbol with a
\* protective order, issued no cancel call and reported success; the order
\* is still open.
C39_Witness ==
    /\ Swept /\ last.res.success
    /\ \E s \in FlatListedSymbols :
          /\ \E i \in 1 .. Len(last.calls) :
                /\ last.calls[i].c = "position_information"
                /\ last.calls[i].symbol = s
                /\ last.calls[i].resp = "ok" /\ last.calls[i].ret = 0
          /\ \A i \in 1 .. Len(last.calls) : last.calls[i].c # "cancel_order"
          /\ \E o \in openOrders : o.symbol = s /\ o.type \in CLOSING_ORDER_TYPES
          /\ s \in last.res.cleaned_symbols

---------------------------------------------------------------------------
(* Properties: details.cleaned_symbols *)

\* The symbols an order of which the sweep cancelled.
CancelledSymbols == {o.symbol : o \in CancelledOrders}

\* C40 (as claimed): in the result of a successful clean_orphan_orders,
\* cleaned_symbols is the set of symbols whose protective orders the sweep
\* cancelled and cleaned_count is its size; a symbol with an open position,
\* whose orders were left alone, is not in it.
C40_CleanedAreCancelled ==
    (Swept /\ last.res.success) =>
        /\ last.res.cleaned_symbols = CancelledSymbols
        /\ last.res.cleaned_count = Cardinality(CancelledSymbols)
        /\ \A s \in last.res.cleaned_symbols : last.amt_before[s] = 0

\* The case of C40: a symbol with an open position and a protective order;
\* the sweep cancelled nothing and reports that symbol as cleaned, count 1.
C40_Witness ==
    /\ Swept /\ last.res.success
    /\ CancelledOrders = {}
    /\ openOrders = last.orders_before
    /\ last.res.cleaned_count = 1
    /\ \E s \in last.res.cleaned_symbols : last.amt_before[s] # 0

\* What the result does hold: the symbols that had a protective order open
\* when the sweep began, with or without a position.
CleanedAreProcessed ==
    (Swept /\ last.res.success) =>
        /\ last.res.cleaned_symbols =
              {o.symbol : o \in {q \in last.orders_before : q.type \in CLOSING_ORDER_TYPES}}
        /\ last.res.cleaned_count = Cardinality(last.res.cleaned_symbols)

====
